---- MODULE Spec2Model ----
(***************************************************************************)
(* Model of PyVisualStudioSetupConfiguration.py: the discovery strategy    *)
(* chain with its process-wide cache, the identifier codec (GUID) and the  *)
(* vtable binding of the interface catalog.                                *)
(*                                                                         *)
(* Python values are sequences of TLA+ strings, so that any two of them    *)
(* can be compared: a str is the sequence of its characters (a path is the *)
(* sequence of its components), "" is <<>>, and None, True and False are   *)
(* the one-element sequences below.                                        *)
(***************************************************************************)
EXTENDS Integers, Sequences, FiniteSets, TLC

VARIABLES
    vsInstancesCache,  \* the module global: [isNone, items]
    environ,           \* the driver-kit variables of os.environ at the last call
    args,              \* arguments of the last GetAllVSInstanceInfo call
    outcome,           \* "idle" | "returned" | "raised": how the last call ended
    result,            \* the list the last call returned
    executed,          \* the strategy functions the last call ran, in order,
                       \* each with the number of records it yielded
    hadCache,          \* whether the cache was non-empty when the last call began
    name,              \* GUID codec: the text given to GUID(name)
    guid,              \* GUID codec: the structure GUID(name)
    text,              \* GUID codec: str(guid)
    guid2,             \* GUID codec: the structure GUID(text)
    pc,                \* GUID codec: how far the round trip went
    handles,           \* interface proxies built by SetComInterface
    refcount,          \* COM objects: the references this process holds on each
    released,          \* per proxy: the Release calls it has issued
    exited,            \* whether the atexit callbacks have run
    last,              \* the last operation on a proxy and how it ended
    direct,            \* the last strategy function called on its own
    runtime,           \* the native runtime: what InitCom bound and the calls made
    enum               \* the enumeration loop of the native strategy, step by step

vars == <<vsInstancesCache, environ, args, outcome, result, executed, hadCache,
          name, guid, text, guid2, pc, handles, refcount, released, exited, last,
          direct, runtime, enum>>

chainVars == <<vsInstancesCache, environ, args, outcome, result, executed, hadCache>>
guidVars == <<name, guid, text, guid2, pc>>
comVars == <<handles, refcount, released, exited, last>>
procVars == <<runtime, enum>>

----------------------------------------------------------------------------
(* Bounds *)

MaxHandles == 2     \* interface proxies alive at once
MaxInstances == 2   \* instances the setup configuration enumerates
MaxInits == 2       \* CoInitialize calls in one process

----------------------------------------------------------------------------
(* Python values *)

None == <<"None">>
PyTrue == <<"True">>
PyFalse == <<"False">>

\* mutant of Truthy: every value passes an "if not x" test
TruthyAlways(v) == TRUE

Truthy(v) == v # None /\ v # <<>> /\ v # PyFalse

PyBool(b) == IF b THEN PyTrue ELSE PyFalse

\* x or y
PyOr(x, y) == IF Truthy(x) THEN x ELSE y

\* ord(c) for the characters version strings are made of
Ord(c) ==
    CASE c = "." -> 46
      [] c = "0" -> 48 [] c = "1" -> 49 [] c = "2" -> 50 [] c = "3" -> 51
      [] c = "4" -> 52 [] c = "5" -> 53 [] c = "6" -> 54 [] c = "7" -> 55
      [] c = "8" -> 56 [] c = "9" -> 57
      [] OTHER -> 0

\* a < b for two str values: lexicographic on code points
RECURSIVE StrLess(_, _)
StrLess(a, b) ==
    IF b = <<>> THEN FALSE
    ELSE IF a = <<>> THEN TRUE
    ELSE IF Ord(Head(a)) # Ord(Head(b)) THEN Ord(Head(a)) < Ord(Head(b))
    ELSE StrLess(Tail(a), Tail(b))

\* str.lower() on the letters the environment flags are written with
LowerChar(c) ==
    CASE c = "T" -> "t" [] c = "R" -> "r" [] c = "U" -> "u" [] c = "E" -> "e"
      [] c = "F" -> "f" [] c = "A" -> "a" [] c = "L" -> "l" [] c = "S" -> "s"
      [] OTHER -> c

lower(s) == [i \in 1..Len(s) |-> LowerChar(s[i])]

----------------------------------------------------------------------------
(* VSInstanceInfo *)

VSInstanceInfo ==
    [VSInstallLocation |-> None, Version |-> None, VCToolsetVersion |-> None,
     bWin10SDK |-> None, bWin81SDK |-> None, chip |-> None]

getVersion(x) == PyOr(x.Version, <<>>)

\* list.sort(key = getVersion, reverse = True): stable, descending
RECURSIVE InsertDesc(_, _)
InsertDesc(sorted, x) ==
    IF sorted = <<>> THEN <<x>>
    ELSE IF StrLess(getVersion(Head(sorted)), getVersion(x))
         THEN <<x>> \o sorted
         ELSE <<Head(sorted)>> \o InsertDesc(Tail(sorted), x)

RECURSIVE SortByVersionDesc(_)
SortByVersionDesc(l) ==
    IF l = <<>> THEN <<>>
    ELSE InsertDesc(SortByVersionDesc(SubSeq(l, 1, Len(l) - 1)), l[Len(l)])

\* what a strategy function hands back: a list, or an exception
Return(l) == [raised |-> FALSE, value |-> l]
Raise == [raised |-> TRUE, value |-> <<>>]

----------------------------------------------------------------------------
(* Embedded-kit strategy *)

getenv(env, var) == IF var \in DOMAIN env THEN env[var] ELSE None

STRtrue == <<"t", "r", "u", "e">>

\* a flag test that forgets .lower()
IsTrueCaseSensitive(flag) == flag = STRtrue

\* flag.lower() == "true"
IsTrue(flag) == lower(flag) = STRtrue

\* a read that forgets the 'or ""'
GetenvRaw(env, var) == getenv(env, var)

\* os.getenv(var) or ""
GetenvOrEmpty(env, var) == PyOr(getenv(env, var), <<>>)

GetEWDKAllVSInstanceInfo(env, skipEWDK) ==
    IF skipEWDK THEN <<>>
    ELSE
      LET envEnterpriseWDK == PyOr(getenv(env, "EnterpriseWDK"), <<>>)
          envDisableRegistryUse == PyOr(getenv(env, "DisableRegistryUse"), <<>>)
      IN IF IsTrue(envEnterpriseWDK) /\ IsTrue(envDisableRegistryUse)
         THEN LET envWindowsSdkDir81 == GetenvOrEmpty(env, "WindowsSdkDir_81")
                  envVSVersion == getenv(env, "VisualStudioVersion")
                  vsInstanceInfo ==
                      [VSInstanceInfo EXCEPT
                          !.bWin10SDK = PyTrue,
                          !.bWin81SDK = PyBool(envWindowsSdkDir81 # <<>>),
                          !.Version = envVSVersion,
                          !.VSInstallLocation = getenv(env, "VSINSTALLDIR"),
                          !.VCToolsetVersion = getenv(env, "VCToolsVersion"),
                          !.chip = getenv(env, "VSCMD_ARG_TGT_ARCH")]
              IN IF Truthy(envVSVersion) THEN <<vsInstanceInfo>> ELSE <<>>
         ELSE <<>>

----------------------------------------------------------------------------
(* The collaborators.  A world w is what one call finds outside the        *)
(* process: w.environ (os.environ), w.files and w.dirs (the filesystem),   *)
(* w.marker (first line of each marker file), w.vswhere (what running the  *)
(* locator at a path does), w.registry, w.cmake (the lines of               *)
(* "cmake --help") and w.com (the setup configuration COM server).         *)

isfile(w, path) == path \in w.files
isdir(w, path) == path \in w.dirs

----------------------------------------------------------------------------
(* External locator strategy *)

ProgramFilesVars == <<"ProgramFiles(x86)", "ProgramFiles">>

VSWhereSuffix == <<"Microsoft Visual Studio", "Installer", "vswhere.exe">>

\* the body of "for item in vsWhereInfo": item.get raises on a non-dict
RECURSIVE VSWhereItems(_, _)
VSWhereItems(items, vsInstances) ==
    IF items = <<>> THEN Return(vsInstances)
    ELSE LET item == Head(items) IN
         IF ~item.isdict THEN Raise
         ELSE VSWhereItems(Tail(items),
                Append(vsInstances,
                  [VSInstanceInfo EXCEPT
                      !.VSInstallLocation = item.installationPath,
                      !.Version = PyOr(item.installationVersion, <<>>)]))

\* the loop over the two directories, from directory number k on; done is
\* TRUE once the early "return vsInstances" of a failed run was taken, and
\* invoked are the locator executables that were run, in order
RECURSIVE VSWhereDirs(_, _, _)
VSWhereDirs(w, k, vsInstances) ==
    IF k > Len(ProgramFilesVars)
    THEN [raised |-> FALSE, value |-> vsInstances, done |-> FALSE, invoked |-> <<>>]
    ELSE
      LET programFilePath == getenv(w.environ, ProgramFilesVars[k])
          vsWherePath == programFilePath \o VSWhereSuffix
          after(rest) == [rest EXCEPT !.invoked = <<vsWherePath>> \o @]
      IN IF Truthy(programFilePath) /\ isfile(w, vsWherePath)
         THEN LET run == w.vswhere[vsWherePath] IN
              IF ~run.ok THEN [raised |-> FALSE, value |-> vsInstances, done |-> TRUE,
                               invoked |-> <<vsWherePath>>]
              ELSE IF ~run.json THEN after(VSWhereDirs(w, k + 1, vsInstances))
              ELSE IF ~run.iterable THEN [raised |-> TRUE, value |-> <<>>, done |-> TRUE,
                                          invoked |-> <<vsWherePath>>]
              ELSE LET r == VSWhereItems(run.items, vsInstances) IN
                   IF r.raised THEN [raised |-> TRUE, value |-> <<>>, done |-> TRUE,
                                     invoked |-> <<vsWherePath>>]
                   ELSE after(VSWhereDirs(w, k + 1, r.value))
         ELSE VSWhereDirs(w, k + 1, vsInstances)

VSWhereGetAllVSInstanceInfo(w) ==
    LET r == VSWhereDirs(w, 1, <<>>) IN
    IF r.raised THEN Raise
    ELSE IF r.done THEN Return(r.value)
    ELSE Return(SortByVersionDesc(r.value))

----------------------------------------------------------------------------
(* Registry strategy *)

vsGenerators == << <<"1", "4", ".", "0">>, <<"1", "2", ".", "0">>,
                   <<"1", "1", ".", "0">>, <<"9", ".", "0">> >>
vsVariants == <<"VisualStudio", "VCExpress", "WDExpress">>
vsEntries == << [value |-> "InstallDir", sub |-> <<>>],
                [value |-> "ProductDir", sub |-> <<"Setup", "VC">>] >>

\* winreg.QueryValueEx gives the tuple (value, type); None when the key or
\* the value is missing
ReadWinreg(w, key, valueName) ==
    IF <<key, valueName>> \in DOMAIN w.registry
    THEN <<"tuple">> \o w.registry[<<key, valueName>>] \o <<"REG_SZ">>
    ELSE None

RegeditKey(g, v, e) ==
    <<"SOFTWARE", "Microsoft", vsVariants[v]>> \o <<vsGenerators[g]>> \o vsEntries[e].sub

\* the body of the innermost loop: the record of a successful probe
RegeditProbe(version, dir) ==
    IF Truthy(dir)
    THEN <<[VSInstanceInfo EXCEPT !.Version = version, !.VSInstallLocation = dir]>>
    ELSE <<>>

\* the three nested loops, flattened: probe number p of 0 .. 23
RECURSIVE RegeditProbes(_, _)
RegeditProbes(w, p) ==
    IF p >= Len(vsGenerators) * Len(vsVariants) * Len(vsEntries) THEN <<>>
    ELSE LET g == (p \div (Len(vsVariants) * Len(vsEntries))) + 1
             v == ((p \div Len(vsEntries)) % Len(vsVariants)) + 1
             e == (p % Len(vsEntries)) + 1
         IN RegeditProbe(vsGenerators[g],
                         ReadWinreg(w, RegeditKey(g, v, e), vsEntries[e].value))
            \o RegeditProbes(w, p + 1)

\* mutant of RemoveDuplicate: every probe's record is kept
RemoveNothing(l, versions) == l

\* keep the first record of each version
RECURSIVE RemoveDuplicate(_, _)
RemoveDuplicate(l, versions) ==
    IF l = <<>> THEN <<>>
    ELSE IF getVersion(Head(l)) \in versions
         THEN RemoveDuplicate(Tail(l), versions)
         ELSE <<Head(l)>> \o RemoveDuplicate(Tail(l), versions \cup {getVersion(Head(l))})

RegeditGetAllVSInstanceInfo(w) ==
    SortByVersionDesc(RemoveDuplicate(RegeditProbes(w, 0), {}))

----------------------------------------------------------------------------
(* Environment strategy *)

oldVSVersions == << <<"1", "4">>, <<"1", "2">>, <<"1", "1">>, <<"9">> >>

\* "VS" + version + "0COMNTOOLS"
ComnToolsVar(version) ==
    CASE version = <<"1", "4">> -> "VS140COMNTOOLS"
      [] version = <<"1", "2">> -> "VS120COMNTOOLS"
      [] version = <<"1", "1">> -> "VS110COMNTOOLS"
      [] version = <<"9">> -> "VS90COMNTOOLS"

\* os.path.abspath(os.path.join(dir, '../..')): two components up, never
\* above the drive
UpTwo(dir) == IF Len(dir) > 2 THEN SubSeq(dir, 1, Len(dir) - 2) ELSE SubSeq(dir, 1, 1)

RECURSIVE EnvLoop(_, _)
EnvLoop(w, k) ==
    IF k > Len(oldVSVersions) THEN <<>>
    ELSE LET version == oldVSVersions[k]
             envVSCommonToolsDir == PyOr(getenv(w.environ, ComnToolsVar(version)), <<>>)
         IN (IF Truthy(envVSCommonToolsDir) /\ isdir(w, envVSCommonToolsDir)
             THEN <<[VSInstanceInfo EXCEPT !.Version = version,
                                          !.VSInstallLocation = UpTwo(envVSCommonToolsDir)]>>
             ELSE <<>>) \o EnvLoop(w, k + 1)

EnvGetAllVSInstanceInfo(w) == SortByVersionDesc(EnvLoop(w, 1))

----------------------------------------------------------------------------
(* Build-tool default strategy *)

\* w.cmake is the output of "cmake --help" as its lines; a line is
\* [star, major]: star says the line matches "* Visual Studio <d+> <d+>",
\* major is the first number
RECURSIVE CMakeSearch(_)
CMakeSearch(lines) ==
    IF lines = <<>> THEN None
    ELSE IF Head(lines).star THEN Head(lines).major
    ELSE CMakeSearch(Tail(lines))

GetCMakeDefaultVSInstanceInfo(w) ==
    IF w.cmake # <<>> /\ CMakeSearch(w.cmake) # None
    THEN <<[VSInstanceInfo EXCEPT !.Version = CMakeSearch(w.cmake)]>>
    ELSE <<>>

----------------------------------------------------------------------------
(* Identifier codec: class GUID *)

\* int(c, 16) of one character; -1 when c is no hex digit
HexVal(c) ==
    CASE c = "0" -> 0 [] c = "1" -> 1 [] c = "2" -> 2 [] c = "3" -> 3
      [] c = "4" -> 4 [] c = "5" -> 5 [] c = "6" -> 6 [] c = "7" -> 7
      [] c = "8" -> 8 [] c = "9" -> 9
      [] c = "a" -> 10 [] c = "b" -> 11 [] c = "c" -> 12
      [] c = "d" -> 13 [] c = "e" -> 14 [] c = "f" -> 15
      [] c = "A" -> 10 [] c = "B" -> 11 [] c = "C" -> 12
      [] c = "D" -> 13 [] c = "E" -> 14 [] c = "F" -> 15
      [] OTHER -> -1

IsHex(c) == HexVal(c) >= 0

UpperHexDigits == <<"0", "1", "2", "3", "4", "5", "6", "7", "8", "9",
                    "A", "B", "C", "D", "E", "F">>

\* s.upper() on the characters identifiers are written with
UpperChar(c) ==
    CASE c = "a" -> "A" [] c = "b" -> "B" [] c = "c" -> "C"
      [] c = "d" -> "D" [] c = "e" -> "E" [] c = "f" -> "F"
      [] OTHER -> c

upper(s) == [i \in 1..Len(s) |-> UpperChar(s[i])]

\* s.strip("{}")
RECURSIVE LStrip(_)
LStrip(s) == IF s # <<>> /\ Head(s) \in {"{", "}"} THEN LStrip(Tail(s)) ELSE s

RECURSIVE RStrip(_)
RStrip(s) ==
    IF s # <<>> /\ s[Len(s)] \in {"{", "}"} THEN RStrip(SubSeq(s, 1, Len(s) - 1)) ELSE s

strip(s) == RStrip(LStrip(s))

\* s.replace("-", "")
RECURSIVE RemoveHyphens(_)
RemoveHyphens(s) ==
    IF s = <<>> THEN <<>>
    ELSE IF Head(s) = "-" THEN RemoveHyphens(Tail(s))
    ELSE <<Head(s)>> \o RemoveHyphens(Tail(s))

\* the pattern 8-4-4-4-12 matches s at offset i
HyphenAt == {9, 14, 19, 24}
PatternLen == 36
MatchesAt(s, i) ==
    /\ i + PatternLen <= Len(s)
    /\ \A k \in 1..PatternLen :
          IF k \in HyphenAt THEN s[i + k] = "-" ELSE IsHex(s[i + k])

\* mutant of Search: the "if m" test is skipped
SearchAlways(s) == TRUE

\* re.search(pattern, s) finds a match
Search(s) == \E i \in 0..Len(s) : MatchesAt(s, i)

\* s[from:to], Python's half-open slice
Slice(s, from, to) ==
    SubSeq(s, from + 1, IF to < Len(s) THEN to ELSE Len(s))

\* int(s, 16) is defined: s is a non-empty run of hex digits
IntOK(s) == s # <<>> /\ \A k \in 1..Len(s) : IsHex(s[k])

RECURSIVE Int16(_)
Int16(s) == IF s = <<>> THEN 0 ELSE 16 * Int16(SubSeq(s, 1, Len(s) - 1)) + HexVal(s[Len(s)])

ZeroGUID == [raised |-> FALSE, Data1 |-> 0, Data2 |-> 0, Data3 |-> 0,
             Data4 |-> [i \in 0..7 |-> 0]]

\* GUID(name): raised says that int() threw ValueError inside __init__
GUID(nm) ==
    IF nm = None THEN ZeroGUID
    ELSE LET s == strip(nm) IN
         IF ~Search(s) THEN ZeroGUID
         ELSE LET t == RemoveHyphens(s)
                  byte(i) == Slice(t, 16 + i * 2, 16 + i * 2 + 2)
              IN IF /\ IntOK(Slice(t, 0, 8)) /\ IntOK(Slice(t, 8, 12))
                    /\ IntOK(Slice(t, 12, 16))
                    /\ \A i \in 0..7 : IntOK(byte(i))
                 THEN [raised |-> FALSE,
                       Data1 |-> Int16(Slice(t, 0, 8)),
                       Data2 |-> Int16(Slice(t, 8, 12)),
                       Data3 |-> Int16(Slice(t, 12, 16)),
                       Data4 |-> [i \in 0..7 |-> Int16(byte(i))]]
                 ELSE [ZeroGUID EXCEPT !.raised = TRUE]

\* "%0<width>X" % n
RECURSIVE FormatX(_, _)
FormatX(n, width) ==
    IF n = 0 /\ width <= 0 THEN <<>>
    ELSE FormatX(n \div 16, width - 1) \o <<UpperHexDigits[(n % 16) + 1]>>

\* the indices of Data4 that __str__ prints, in order
StrData4Order == <<0, 1, 2, 3, 5, 5, 6, 7>>

\* GUID.__str__
GUIDStr(g) ==
    <<"{">> \o FormatX(g.Data1, 8) \o <<"-">> \o FormatX(g.Data2, 4) \o <<"-">>
    \o FormatX(g.Data3, 4) \o <<"-">>
    \o FormatX(g.Data4[StrData4Order[1]], 2) \o FormatX(g.Data4[StrData4Order[2]], 2)
    \o <<"-">>
    \o FormatX(g.Data4[StrData4Order[3]], 2) \o FormatX(g.Data4[StrData4Order[4]], 2)
    \o FormatX(g.Data4[StrData4Order[5]], 2) \o FormatX(g.Data4[StrData4Order[6]], 2)
    \o FormatX(g.Data4[StrData4Order[7]], 2) \o FormatX(g.Data4[StrData4Order[8]], 2)
    \o <<"}">>

----------------------------------------------------------------------------
(* Interface catalog and vtable binding *)

Interfaces == {"IUnknown", "ISetupConfiguration", "ISetupConfiguration2",
               "IEnumSetupInstances", "ISetupInstance", "ISetupInstance2",
               "ISetupPackageReference"}

\* cls.__bases__[0]
Base(cls) ==
    CASE cls = "ISetupConfiguration" -> "IUnknown"
      [] cls = "ISetupConfiguration2" -> "ISetupConfiguration"
      [] cls = "IEnumSetupInstances" -> "IUnknown"
      [] cls = "ISetupInstance" -> "IUnknown"
      [] cls = "ISetupInstance2" -> "ISetupInstance"
      [] cls = "ISetupPackageReference" -> "IUnknown"

\* cls and its ancestors
RECURSIVE Lineage(_)
Lineage(cls) == IF cls = "IUnknown" THEN {cls} ELSE {cls} \cup Lineage(Base(cls))

COMMETHOD(idx, methodName) == [name |-> methodName, idx |-> idx]

\* cls._methods
Methods(cls) ==
    CASE cls = "IUnknown" ->
           << COMMETHOD(0, "QueryInterface"), COMMETHOD(1, "AddRef"),
              COMMETHOD(2, "Release") >>
      [] cls = "ISetupConfiguration" ->
           << COMMETHOD(0, "EnumInstances"),
              COMMETHOD(1, "GetInstanceForCurrentProcess"),
              COMMETHOD(2, "GetInstanceForPath") >>
      [] cls = "ISetupConfiguration2" ->
           << COMMETHOD(0, "EnumAllInstances") >>
      [] cls = "IEnumSetupInstances" ->
           << COMMETHOD(0, "Next"), COMMETHOD(1, "Skip"),
              COMMETHOD(2, "Reset"), COMMETHOD(3, "Clone") >>
      [] cls = "ISetupInstance" ->
           << COMMETHOD(0, "GetInstanceId"), COMMETHOD(1, "GetInstallDate"),
              COMMETHOD(2, "GetInstallationName"),
              COMMETHOD(3, "GetInstallationPath"),
              COMMETHOD(4, "GetInstallationVersion"),
              COMMETHOD(5, "GetDisplayName"), COMMETHOD(6, "GetDescription"),
              COMMETHOD(7, "ResolvePath") >>
      [] cls = "ISetupInstance2" ->
           << COMMETHOD(0, "GetState"), COMMETHOD(1, "GetPackages"),
              COMMETHOD(2, "GetProduct"), COMMETHOD(3, "GetProductPath") >>
      [] cls = "ISetupPackageReference" ->
           << COMMETHOD(0, "GetId"), COMMETHOD(1, "GetVersion"),
              COMMETHOD(2, "GetChip"), COMMETHOD(3, "GetLanguage"),
              COMMETHOD(4, "GetBranch"), COMMETHOD(5, "GetType"),
              COMMETHOD(5, "GetUniqueId") >>

\* cls._method_count: len(_methods), but the literal 4 in ISetupInstance2
MethodCount(cls) == IF cls = "ISetupInstance2" THEN 4 ELSE Len(Methods(cls))

\* a binder that forgets the ancestors of the base interface
GetComMethodCountNoBase(cls) == MethodCount(cls)

RECURSIVE GetComMethodCount(_)
GetComMethodCount(cls) ==
    IF cls = "IUnknown" THEN MethodCount(cls)
    ELSE MethodCount(cls) + GetComMethodCount(Base(cls))

\* the attribute "_<cls>__com_<name>" of the instance
ComAttr(cls, methodName) == <<cls, methodName>>

\* the setattr loop over cls._methods, from method number k on
RECURSIVE BindMethods(_, _, _, _, _)
BindMethods(cls, attrs, functions, startIndex, k) ==
    IF k > Len(Methods(cls)) THEN attrs
    ELSE LET method == Methods(cls)[k]
             comfunc == functions[startIndex + method.idx]
             attr == ComAttr(cls, method.name)
         IN BindMethods(cls,
              [a \in DOMAIN attrs \cup {attr} |-> IF a = attr THEN comfunc ELSE attrs[a]],
              functions, startIndex, k + 1)

\* the attributes GenerateComMethod(cls, instance, functions) leaves on the
\* instance, which had the attributes attrs before
RECURSIVE GenerateComMethod(_, _, _)
GenerateComMethod(cls, attrs, functions) ==
    IF cls # "IUnknown"
    THEN BindMethods(cls, GenerateComMethod(Base(cls), attrs, functions),
                     functions, GetComMethodCount(Base(cls)), 1)
    ELSE BindMethods(cls, attrs, functions, 0, 1)

\* COM objects are numbered from 1; 0 is the null pointer.  Entry k of the
\* vtable of object obj holds the function pointer <<obj, k>>.
NumObjects == 2
VTableSize == 16
VTable(obj) == [k \in 0..(VTableSize - 1) |-> <<obj, k>>]

NoAttrs == [a \in {} |-> <<0, 0>>]

\* a SetComInterface that forgets "if not comInterface: return"
SetComInterfaceUnguarded(cls, comInterface) ==
    [cls |-> cls,
     attrs |-> GenerateComMethod(cls, NoAttrs, VTable(comInterface)),
     IThis |-> comInterface]

\* the proxy object after interface(comInterface): SetComInterface binds
\* nothing on a null pointer
SetComInterface(cls, comInterface) ==
    [cls |-> cls,
     attrs |-> IF comInterface = 0 THEN NoAttrs
               ELSE GenerateComMethod(cls, NoAttrs, VTable(comInterface)),
     IThis |-> comInterface]

----------------------------------------------------------------------------
(* Interface proxies and the references they hold *)

Objects == 1..NumObjects

\* the methods of cls that are Python wrappers of one native call
Wrappers(cls) ==
    CASE cls = "IUnknown" -> {"QueryInterface", "AddRef", "Release"}
      [] cls = "ISetupConfiguration" -> {"EnumInstances"}
      [] cls = "ISetupConfiguration2" -> {"EnumAllInstances"}
      [] cls = "IEnumSetupInstances" -> {"Next"}
      [] cls = "ISetupInstance" -> {"GetInstallationPath", "GetInstallationVersion"}
      [] cls = "ISetupInstance2" -> {"GetState", "GetProduct", "GetPackages"}
      [] cls = "ISetupPackageReference" ->
           {"GetId", "GetVersion", "GetChip", "GetLanguage", "GetBranch", "GetType",
            "GetUniqueId"}

\* self.__com_<methodName>(self._IThis, ...) written in class cls: the
\* native call <<this, obj, slot>> it dispatches (entry slot of the vtable
\* of obj, called on this), or <<>> when the instance has no such
\* attribute and the lookup raises AttributeError
ComCall(self, cls, methodName) ==
    IF ComAttr(cls, methodName) \in DOMAIN self.attrs
    THEN <<self.IThis>> \o self.attrs[ComAttr(cls, methodName)]
    ELSE <<>>

NoOp == [op |-> "none", handle |-> 0, kind |-> "none", call |-> <<>>, ret |-> 0]

InitHandles ==
    /\ handles = <<>>
    /\ refcount = [o \in Objects |-> 0]
    /\ released = <<>>
    /\ exited = FALSE
    /\ last = NoOp

\* a cleanup that forgets the Release
AutoCleanNothing(self) == <<>>

\* mutant of InitAddRef: every proxy around an object adds a reference
InitAddRefAlways(self, comInterface, owner) ==
    IF comInterface # 0 THEN ComCall(self, "IUnknown", "AddRef") ELSE <<>>

\* the AddRef that __init__ issues: "if comInterface and not owner"
InitAddRef(self, comInterface, owner) ==
    IF comInterface # 0 /\ ~owner THEN ComCall(self, "IUnknown", "AddRef") ELSE <<>>

\* _AutoCleanComReference_: the Release it dispatches, <<>> when it
\* dispatches none ("if self._IThis", and a failing Release is swallowed)
AutoCleanComReference(self) ==
    IF self.IThis # 0 THEN ComCall(self, "IUnknown", "Release") ELSE <<>>

----------------------------------------------------------------------------
(* The native runtime *)

\* the statuses a native call answers with: S_OK, S_FALSE, a failure
Statuses == {0, 1, -1}

\* before the module is imported: no DLL loaded, nothing called
NotImported == [CoUninitialize |-> FALSE, func |-> FALSE, inits |-> 0, teardowns |-> 0,
                calls |-> <<>>]

\* InitCom(): loads says whether the two DLLs load, rc is the status
\* CoInitialize answers (0 S_OK, 1 S_FALSE: already initialized, negative:
\* failed, which the OleDLL turns into an OSError that InitCom prints).
\* The global CoUninitialize is bound before CoInitialize is called.
InitComCall(rt, loads, rc) ==
    IF ~loads THEN rt
    ELSE [rt EXCEPT !.CoUninitialize = TRUE,
                    !.inits = @ + IF rc >= 0 THEN 1 ELSE 0,
                    !.calls = Append(@, <<"CoInitialize", rc>>)]

\* the module after import: InitCom() has run once, and the default
\* argument of UninitCom was evaluated when UninitCom was defined
Imported(loads, rc) ==
    LET rt == InitComCall(NotImported, loads, rc) IN [rt EXCEPT !.func = rt.CoUninitialize]

\* UninitCom(func = CoUninitialize): "if func: func()"
UninitCom(rt) ==
    [rt EXCEPT !.teardowns = @ + 1,
               !.calls = IF rt.func THEN Append(@, <<"CoUninitialize", 0>>) ELSE @]

\* the callbacks atexit holds, in registration order: 0 is UninitCom,
\* registered when the module is imported, h is the
\* _AutoCleanComReference_ of proxy number h, registered by its __init__
Callbacks(hs) == <<0>> \o [h \in 1..Len(hs) |-> h]

\* mutant of ExitOrder: first registered, first run
ExitOrderFifo(callbacks) == callbacks

\* atexit runs the callbacks last registered first
ExitOrder(callbacks) == [i \in 1..Len(callbacks) |-> callbacks[Len(callbacks) + 1 - i]]

\* the native calls the callbacks dispatch, run in the given order
RECURSIVE RunCallbacks(_, _, _)
RunCallbacks(rt, hs, order) ==
    IF order = <<>> THEN rt
    ELSE LET h == Head(order)
             after == IF h = 0 THEN UninitCom(rt)
                      ELSE IF AutoCleanComReference(hs[h]) # <<>>
                           THEN [rt EXCEPT !.calls = Append(@, <<"Release", h>>)]
                           ELSE rt
         IN RunCallbacks(after, hs, Tail(order))

----------------------------------------------------------------------------
(* Native COM strategy.  w.com is the setup configuration server:          *)
(* [create, config, config2, enum, instances]; the flags say whether       *)
(* CoCreateInstance, the two QueryInterface calls and EnumAllInstances     *)
(* succeed, instances is what the enumerator delivers.  An instance is     *)
(* [qi2, stateOK, state, version, path, product, packagesOK, packages] and  *)
(* a package is                                                            *)
(* [ptr, qi, id, type, chip]; version, path, id, type and chip are None    *)
(* when the COM getter reports a failure.                                  *)

eLocal == 1
eRegistered == 2

\* state & bit == bit, for a single-bit mask
HasBit(state, bit) == (state \div bit) % 2 = 1

\* mutant of IsInfix: the two str values are equal
IsEqual(needle, haystack) == needle = haystack

\* needle in haystack, for two str values
IsInfix(needle, haystack) ==
    \E i \in 0..(Len(haystack) - Len(needle)) :
        SubSeq(haystack, i + 1, i + Len(needle)) = needle

win10SDKComponent == <<"Microsoft", ".", "VisualStudio", ".", "Component", ".", "Windows10SDK">>
win81SDKComponent == <<"Microsoft", ".", "VisualStudio", ".", "Component", ".", "Windows81SDK">>
vsProductPrefix == <<"Microsoft", ".", "VisualStudio", ".", "Product", ".">>
STRComponent == <<"Component">>
STRProduct == <<"Product">>

\* the loop over the package array: "raise" when a null element or an
\* unreadable id makes the loop body throw
RECURSIVE PackagesLoop(_, _)
PackagesLoop(packages, vsInstanceInfo) ==
    IF packages = <<>> THEN [kind |-> "rec", rec |-> vsInstanceInfo]
    ELSE LET package == Head(packages) IN
         IF ~package.ptr THEN [kind |-> "raise", rec |-> vsInstanceInfo]
         ELSE IF ~package.qi THEN PackagesLoop(Tail(packages), vsInstanceInfo)
         ELSE IF package.id = None THEN [kind |-> "raise", rec |-> vsInstanceInfo]
         ELSE LET i1 == IF IsInfix(win10SDKComponent, package.id) /\ package.type = STRComponent
                        THEN [vsInstanceInfo EXCEPT !.bWin10SDK = PyTrue]
                        ELSE vsInstanceInfo
                  i2 == IF win81SDKComponent = package.id /\ package.type = STRComponent
                        THEN [i1 EXCEPT !.bWin81SDK = PyTrue]
                        ELSE i1
                  i3 == IF IsInfix(vsProductPrefix, package.id) /\ package.type = STRProduct
                        THEN [i2 EXCEPT !.chip = package.chip]
                        ELSE i2
              IN PackagesLoop(Tail(packages), i3)

MarkerPath(vcRoot) ==
    vcRoot \o <<"VC", "Auxiliary", "Build", "Microsoft.VCToolsVersion.default.txt">>

\* mutant of ToolsDir: the toolset directory is taken to be the install path
ToolsDirIsRoot(vcRoot, vcToolsVersion) == vcRoot

ToolsDir(vcRoot, vcToolsVersion) == vcRoot \o <<"VC", "Tools", "MSVC">> \o vcToolsVersion

\* the result is [kind, rec, steps]: kind is "rec" (rec is returned), "none"
\* (None is returned) or "raise" (an exception leaves the function); steps
\* are the reads the function made, in order.  inst.fails are the methods
\* of the instance whose native call answers a failed HRESULT, which the
\* restype ctypes.HRESULT turns into an OSError.
ComGetOneVSInstanceInfo(w, inst, needChipInfo) ==
    LET out(kind, rec, steps) == [kind |-> kind, rec |-> rec, steps |-> steps]
        s1 == <<"GetState">>
        s2 == s1 \o <<"GetInstallationVersion">>
        local == HasBit(inst.state, eLocal)
        s3 == IF local THEN s2 \o <<"GetInstallationPath">> ELSE s2
        s4 == s3 \o <<"isdir">>
    IN
    IF "GetState" \in inst.fails THEN out("raise", VSInstanceInfo, s1)
    ELSE IF ~inst.stateOK \/ inst.state = 0 THEN out("none", VSInstanceInfo, s1)
    ELSE IF "GetInstallationVersion" \in inst.fails THEN out("raise", VSInstanceInfo, s2)
    ELSE IF ~Truthy(inst.version) THEN out("none", VSInstanceInfo, s2)
    ELSE IF local /\ "GetInstallationPath" \in inst.fails THEN out("raise", VSInstanceInfo, s3)
    ELSE IF local /\ ~Truthy(inst.path) THEN out("none", VSInstanceInfo, s3)
    ELSE
      LET vcRoot == IF local THEN inst.path ELSE None
          i0 == [VSInstanceInfo EXCEPT !.Version = inst.version,
                                       !.VSInstallLocation = vcRoot]
      IN
      IF vcRoot = None THEN out("raise", i0, s4)     \* os.path.isdir(None): TypeError
      ELSE IF ~isdir(w, vcRoot) THEN out("none", i0, s4)
      ELSE
        LET marker == isfile(w, MarkerPath(vcRoot))
            vcToolsVersion == IF marker THEN w.marker[MarkerPath(vcRoot)] ELSE None
            s5 == s4 \o <<"isfile">> \o (IF marker THEN <<"readline", "isdir">> ELSE <<>>)
            i1 == IF vcToolsVersion # None /\ isdir(w, ToolsDir(vcRoot, vcToolsVersion))
                  THEN [i0 EXCEPT !.VCToolsetVersion = vcToolsVersion]
                  ELSE i0
            s6 == s5 \o <<"GetProduct">>
            s7 == s6 \o <<"GetPackages">>
        IN
        IF needChipInfo /\ HasBit(inst.state, eRegistered)
        THEN IF "GetProduct" \in inst.fails THEN out("raise", i1, s6)
             ELSE IF ~inst.product THEN out("none", i1, s6)
             ELSE IF "GetPackages" \in inst.fails THEN out("raise", i1, s7)
             ELSE IF ~inst.packagesOK THEN out("none", i1, s7)
             ELSE LET r == PackagesLoop(inst.packages, i1) IN
                  IF r.kind = "raise" THEN out("raise", r.rec, s7)
                  ELSE out("rec", r.rec, s7 \o <<"SafeArrayDestroy">>)
        ELSE out("rec", i1, s5)

\* the while loop over enumInstances.Next: an exception ends the loop and
\* keeps what was appended before.  The result is [value, log]: the list
\* vsInstances and, for every instance the loop fetched, what became of it.
RECURSIVE ComEnumLoop(_, _, _, _, _)
ComEnumLoop(w, instances, needChipInfo, vsInstances, log) ==
    IF instances = <<>> THEN [value |-> vsInstances, log |-> log]
    ELSE LET inst == Head(instances) IN
         IF "QueryInterface" \in inst.fails
         THEN [value |-> vsInstances,
               log |-> Append(log, [kind |-> "raise", rec |-> VSInstanceInfo,
                                    steps |-> <<>>])]
         ELSE IF ~inst.qi2
         THEN ComEnumLoop(w, Tail(instances), needChipInfo, vsInstances,
                          Append(log, [kind |-> "none", rec |-> VSInstanceInfo,
                                       steps |-> <<>>]))
         ELSE LET r == ComGetOneVSInstanceInfo(w, inst, needChipInfo) IN
              CASE r.kind = "raise" -> [value |-> vsInstances, log |-> Append(log, r)]
                [] r.kind = "none" -> ComEnumLoop(w, Tail(instances), needChipInfo,
                                                  vsInstances, Append(log, r))
                [] r.kind = "rec" -> ComEnumLoop(w, Tail(instances), needChipInfo,
                                                 Append(vsInstances, r.rec),
                                                 Append(log, r))

\* ComGetAllVSInstanceInfo with the log of its loop
ComGetAllVSInstanceInfoRun(w, needChipInfo) ==
    IF ~w.com.create THEN [value |-> <<>>, log |-> <<>>]
    ELSE IF ~w.com.config \/ ~w.com.config2 \/ ~w.com.enum
         THEN [value |-> SortByVersionDesc(<<>>), log |-> <<>>]   \* AttributeError on None, caught
    ELSE LET r == ComEnumLoop(w, w.com.instances, needChipInfo, <<>>, <<>>) IN
         [value |-> SortByVersionDesc(r.value), log |-> r.log]

ComGetAllVSInstanceInfo(w, needChipInfo) == ComGetAllVSInstanceInfoRun(w, needChipInfo).value

----------------------------------------------------------------------------
(* The public query and the process-wide cache *)

NoCache == [items |-> <<>>, isNone |-> TRUE]
Cached(l) == [items |-> l, isNone |-> FALSE]

\* a guard that forgets the bypass flag
CacheHitIgnoringBypass(cache, ignoreCache) == ~cache.isNone /\ cache.items # <<>>

\* a guard that never finds the cache
CacheHitNever(cache, ignoreCache) == FALSE

\* "if vsInstancesCache and not ignoreCache"
CacheHit(cache, ignoreCache) ==
    ~cache.isNone /\ cache.items # <<>> /\ ~ignoreCache

Ran(fn, list) == [fn |-> fn, yielded |-> Len(list)]

\* a chain that runs the fallback whatever the first strategy returned
NeedsFallbackAlways(list) == TRUE

\* "x or y" on two lists: y is evaluated only when x is empty
NeedsFallback(list) == list = <<>>

\* mutant of CacheAfterLegacy: the cache keeps the list of the newer
\* strategies
CacheBeforeLegacy(newer, legacy) == Cached(newer)

\* "vsInstancesCache += RegeditGetAllVSInstanceInfo() or
\* EnvGetAllVSInstanceInfo()": the cache after the legacy records are
\* appended
CacheAfterLegacy(newer, legacy) == Cached(newer \o legacy)

\* The strategy chain of one call, given what each strategy function
\* returns when it is called: the cache the call leaves, how it ends, the
\* list it returns and the strategy functions it ran.
RunChain(ewdk, com, vswhere, regedit, env, cmake) ==
    LET newer == IF NeedsFallback(com) THEN vswhere.value ELSE com
        legacy == IF NeedsFallback(regedit) THEN env ELSE regedit
        ranNewer == <<Ran("GetEWDKAllVSInstanceInfo", ewdk),
                      Ran("ComGetAllVSInstanceInfo", com)>>
                      \o (IF NeedsFallback(com)
                          THEN <<Ran("VSWhereGetAllVSInstanceInfo", vswhere.value)>>
                          ELSE <<>>)
        ranLegacy == ranNewer \o <<Ran("RegeditGetAllVSInstanceInfo", regedit)>>
                      \o (IF NeedsFallback(regedit)
                          THEN <<Ran("EnvGetAllVSInstanceInfo", env)>>
                          ELSE <<>>)
    IN
    IF ewdk # <<>>
    THEN [outcome |-> "returned", result |-> ewdk,
          executed |-> <<Ran("GetEWDKAllVSInstanceInfo", ewdk)>>,
          cache |-> Cached(ewdk)]
    ELSE IF NeedsFallback(com) /\ vswhere.raised
    THEN [outcome |-> "raised", result |-> <<>>, executed |-> ranNewer,
          cache |-> Cached(ewdk)]
    ELSE IF newer \o legacy # <<>>
    THEN [outcome |-> "returned", result |-> newer \o legacy,
          executed |-> ranLegacy, cache |-> CacheAfterLegacy(newer, legacy)]
    ELSE [outcome |-> "returned", result |-> IF cmake # <<>> THEN cmake ELSE <<>>,
          executed |-> ranLegacy \o <<Ran("GetCMakeDefaultVSInstanceInfo", cmake)>>,
          cache |-> Cached(cmake)]

\* One call GetAllVSInstanceInfo(a.needChipInfo, a.skipEWDK, a.ignoreCache)
\* in world w with the cache holding cache.
GetAllVSInstanceInfoCall(cache, a, w) ==
    IF CacheHit(cache, a.ignoreCache)
    THEN [outcome |-> "returned", result |-> cache.items, executed |-> <<>>,
          cache |-> cache]
    ELSE RunChain(GetEWDKAllVSInstanceInfo(w.environ, a.skipEWDK),
                  ComGetAllVSInstanceInfo(w, a.needChipInfo),
                  VSWhereGetAllVSInstanceInfo(w),
                  RegeditGetAllVSInstanceInfo(w),
                  EnvGetAllVSInstanceInfo(w),
                  GetCMakeDefaultVSInstanceInfo(w))

----------------------------------------------------------------------------
(* The worlds the calls are made in *)

V174 == <<"1", "7", ".", "4">>
V1611 == <<"1", "6", ".", "1", "1">>
V160 == <<"1", "6", ".", "0">>
V170 == <<"1", "7", ".", "0">>
V1434 == <<"1", "4", ".", "3", "4">>
STRx64 == <<"x", "6", "4">>
STR17 == <<"1", "7">>

EmptyEnv == [v \in {} |-> <<>>]

\* the environment of a driver-kit session, and one that lacks the version
EwdkSession ==
    ("EnterpriseWDK" :> <<"T", "r", "u", "e">>) @@ ("DisableRegistryUse" :> STRtrue)
    @@ ("VisualStudioVersion" :> V170) @@ ("VSINSTALLDIR" :> <<"opt", "vs">>)
    @@ ("VCToolsVersion" :> V1434) @@ ("VSCMD_ARG_TGT_ARCH" :> STRx64)
    @@ ("WindowsSdkDir_81" :> <<"opt", "sdk81">>)
EwdkNoVersion ==
    ("EnterpriseWDK" :> STRtrue) @@ ("DisableRegistryUse" :> <<"T", "R", "U", "E">>)
    @@ ("VSINSTALLDIR" :> <<"opt", "vs">>)

EnvProfiles == {EmptyEnv, EwdkSession, EwdkNoVersion}

\* the setup configuration server and the installation directories it names
VS2022 == <<"C:", "VS", "2022">>
VS2019 == <<"C:", "VS", "2019">>

Package(id, type, chip) == [chip |-> chip, ptr |-> TRUE, qi |-> TRUE, id |-> id, type |-> type]

Instance2022 ==
    [path |-> VS2022, version |-> V174, state |-> 7,
     packages |-> << Package(vsProductPrefix \o <<"Community">>, STRProduct, STRx64),
                     Package(win10SDKComponent \o <<".", "19041">>, STRComponent, None) >>,
     fails |-> {}, stateOK |-> TRUE, product |-> TRUE, packagesOK |-> TRUE,
     qi2 |-> TRUE]
Instance2019 ==
    [path |-> VS2019, version |-> V1611, state |-> 1, packages |-> <<>>, fails |-> {},
     stateOK |-> TRUE, product |-> FALSE, packagesOK |-> FALSE, qi2 |-> TRUE]

ComServer(instances) ==
    [enum |-> TRUE, instances |-> instances, create |-> TRUE, config |-> TRUE,
     config2 |-> TRUE]

ComWorlds ==
    { [files |-> {}, dirs |-> {}, marker |-> EmptyEnv,
       com |-> [ComServer(<<>>) EXCEPT !.create = FALSE]],
      [files |-> {MarkerPath(VS2022)},
       dirs |-> {VS2019, VS2022, ToolsDir(VS2022, V1434)},
       marker |-> (MarkerPath(VS2022) :> V1434),
       com |-> ComServer(<<Instance2019, Instance2022>>)] }

\* the locator: where it is installed and what running it prints
PF86 == <<"C:", "Program Files (x86)">>

Item(path, version) == [isdict |-> TRUE, installationPath |-> path, installationVersion |-> version]

PrintsNumber == [items |-> <<>>, ok |-> TRUE, json |-> TRUE, iterable |-> FALSE]
PrintsList(items) == [items |-> items, ok |-> TRUE, json |-> TRUE, iterable |-> TRUE]

LocatorRuns ==
    { PrintsNumber,
      PrintsList(<<Item(VS2019, V160)>>),
      PrintsList(<<Item(VS2019, None)>>) }

LocatorWorlds ==
    { [environ |-> EmptyEnv, files |-> {}, run |-> EmptyEnv] }
    \cup { [environ |-> ("ProgramFiles(x86)" :> PF86),
            files |-> {PF86 \o VSWhereSuffix},
            run |-> ((PF86 \o VSWhereSuffix) :> r)] : r \in LocatorRuns }

\* the registry
VS2015 == <<"C:", "VS", "14.0">>

Registries ==
    { EmptyEnv,
      (<<RegeditKey(1, 1, 1), "InstallDir">> :> (VS2015 \o <<"Common7", "IDE">>))
      @@ (<<RegeditKey(1, 1, 2), "ProductDir">> :> (VS2015 \o <<"VC">>)) }

\* the legacy tools variables
ToolsWorlds ==
    { [environ |-> EmptyEnv, dirs |-> {}],
      [environ |-> ("VS120COMNTOOLS" :> <<"C:", "VS", "12.0", "Common7", "Tools">>),
       dirs |-> {<<"C:", "VS", "12.0", "Common7", "Tools">>}] }

\* what "cmake --help" prints
CMakeOutputs ==
    { << [star |-> FALSE, major |-> STR17] >>,
      << [star |-> FALSE, major |-> <<"1", "6">>], [star |-> TRUE, major |-> STR17] >> }

World(e, c, v, r, t, m) ==
    [environ |-> e @@ v.environ @@ t.environ,
     files |-> c.files \cup v.files,
     dirs |-> c.dirs \cup t.dirs,
     vswhere |-> v.run,
     registry |-> r,
     cmake |-> m,
     marker |-> c.marker,
     com |-> c.com]

Worlds ==
    { World(e, c, v, r, t, m) :
        e \in EnvProfiles, c \in ComWorlds, v \in LocatorWorlds,
        r \in Registries, t \in ToolsWorlds, m \in CMakeOutputs }

\* the variables the embedded-kit strategy reads
EwdkVars == {"EnterpriseWDK", "DisableRegistryUse", "WindowsSdkDir_81",
             "VisualStudioVersion", "VSINSTALLDIR", "VCToolsVersion",
             "VSCMD_ARG_TGT_ARCH"}

Restrict(env, names) == [v \in DOMAIN env \cap names |-> env[v]]

Args == [skipEWDK : BOOLEAN, needChipInfo : BOOLEAN, ignoreCache : BOOLEAN]

\* the defaults of the signature
DefaultArgs == [skipEWDK |-> TRUE, needChipInfo |-> TRUE, ignoreCache |-> FALSE]

\* no strategy function was called on its own
NoDirect == [fn |-> "none"]

\* the enumeration loop has not been entered
NoEnum == [pc |-> "off"]

----------------------------------------------------------------------------
(* Specification of the strategy chain *)

Init ==
    /\ vsInstancesCache = NoCache
    /\ environ = EmptyEnv
    /\ args = DefaultArgs
    /\ outcome = "idle"
    /\ result = <<>>
    /\ executed = <<>>
    /\ hadCache = FALSE
    /\ name = <<>> /\ guid = ZeroGUID /\ text = <<>> /\ guid2 = ZeroGUID /\ pc = "off"
    /\ InitHandles /\ direct = NoDirect /\ runtime = Imported(TRUE, 0) /\ enum = NoEnum

GetAllVSInstanceInfo(a, w) ==
    \E r \in {GetAllVSInstanceInfoCall(vsInstancesCache, a, w)} :
    /\ vsInstancesCache' = r.cache
    /\ environ' = Restrict(w.environ, EwdkVars)
    /\ args' = a
    /\ outcome' = r.outcome
    /\ result' = r.result
    /\ executed' = r.executed
    /\ hadCache' = (~vsInstancesCache.isNone /\ vsInstancesCache.items # <<>>)
    /\ UNCHANGED <<guidVars, comVars, direct, procVars>>

Next == \E a \in Args, w \in Worlds : GetAllVSInstanceInfo(a, w)

Spec == Init /\ [][Next]_vars

----------------------------------------------------------------------------
(* The embedded-kit strategy on its own: every session environment *)

EwdkEnvs ==
    { ("EnterpriseWDK" :> f1) @@ ("DisableRegistryUse" :> f2)
      @@ ("WindowsSdkDir_81" :> sdk) @@ ("VisualStudioVersion" :> ver)
      @@ ("VSINSTALLDIR" :> dir) @@ ("VCToolsVersion" :> tools)
      @@ ("VSCMD_ARG_TGT_ARCH" :> arch) :
        f1 \in {None, STRtrue, <<"T", "r", "u", "e">>},
        f2 \in {STRtrue, <<"f", "a", "l", "s", "e">>},
        sdk \in {None, <<>>, <<"opt", "sdk81">>},
        ver \in {None, <<>>, V170},
        dir \in {None, <<"opt", "vs">>},
        tools \in {None, V1434},
        arch \in {None, STRx64} }

InitEWDK ==
    /\ vsInstancesCache = NoCache
    /\ environ \in EwdkEnvs
    /\ args \in {a \in Args : a.needChipInfo /\ ~a.ignoreCache}
    /\ outcome = "idle"
    /\ result = <<>>
    /\ executed = <<>>
    /\ hadCache = FALSE
    /\ name = <<>> /\ guid = ZeroGUID /\ text = <<>> /\ guid2 = ZeroGUID /\ pc = "off"
    /\ InitHandles /\ direct = NoDirect /\ runtime = Imported(TRUE, 0) /\ enum = NoEnum

\* a direct call GetEWDKAllVSInstanceInfo(args.skipEWDK)
CallGetEWDKAllVSInstanceInfo ==
    /\ outcome = "idle"
    /\ outcome' = "returned"
    /\ result' = GetEWDKAllVSInstanceInfo(environ, args.skipEWDK)
    /\ executed' = <<Ran("GetEWDKAllVSInstanceInfo", result')>>
    /\ UNCHANGED <<vsInstancesCache, environ, args, hadCache, guidVars, comVars, direct, procVars>>

NextEWDK == CallGetEWDKAllVSInstanceInfo

SpecEWDK == InitEWDK /\ [][NextEWDK]_vars

----------------------------------------------------------------------------
(* The strategy functions on their own *)

\* the sequences over S of length at most n
SeqsUpTo(S, n) == UNION { [1..k -> S] : k \in 0..n }

\* the disk the enumerated instances point at: VS2022 has a marker and the
\* toolset it names, VS2019 has no marker, VSStale has a marker naming a
\* toolset that is gone, VSGone is no directory
VSStale == <<"C:", "VS", "stale">>
VSGone == <<"C:", "VS", "gone">>

GoodPackage == Package(vsProductPrefix \o <<"Community">>, STRProduct, STRx64)

Instances ==
    { Instance2022,
      [Instance2019 EXCEPT !.state = 3, !.product = TRUE, !.packagesOK = TRUE],
      [Instance2022 EXCEPT !.stateOK = FALSE],
      [Instance2022 EXCEPT !.version = None],
      [Instance2022 EXCEPT !.version = <<>>],
      [Instance2022 EXCEPT !.fails = {"GetInstallationVersion"}],
      [Instance2022 EXCEPT !.path = None],
      [Instance2022 EXCEPT !.path = <<>>],
      [Instance2022 EXCEPT !.fails = {"GetInstallationPath"}],
      [Instance2022 EXCEPT !.state = 2],
      [Instance2022 EXCEPT !.path = VSGone],
      [Instance2022 EXCEPT !.path = VSStale],
      [Instance2022 EXCEPT !.packages = <<GoodPackage, [GoodPackage EXCEPT !.ptr = FALSE]>>],
      [Instance2022 EXCEPT !.packages = <<[GoodPackage EXCEPT !.id = None]>>],
      [Instance2022 EXCEPT !.packages = <<[GoodPackage EXCEPT !.qi = FALSE], GoodPackage>>],
      [Instance2022 EXCEPT !.qi2 = FALSE],
      [Instance2022 EXCEPT !.product = FALSE],
      [Instance2022 EXCEPT !.state = 1],
      [Instance2022 EXCEPT !.packages =
          <<Package(win81SDKComponent, STRComponent, None),
            Package(win10SDKComponent, STRProduct, None)>>],
      [Instance2022 EXCEPT !.packages =
          <<Package(win81SDKComponent \o <<".", "x">>, STRComponent, None)>>] }

ComCases ==
    { [files |-> {MarkerPath(VS2022), MarkerPath(VSStale)},
       dirs |-> {VS2019, VS2022, VSStale, ToolsDir(VS2022, V1434)},
       marker |-> (MarkerPath(VS2022) :> V1434) @@ (MarkerPath(VSStale) :> V1434),
       com |-> ComServer(instances)] : instances \in SeqsUpTo(Instances, MaxInstances) }

\* two installed locators and what each run prints
PF == <<"C:", "Program Files">>
RunFails == [items |-> <<>>, ok |-> FALSE, json |-> FALSE, iterable |-> FALSE]

\* locator output that is not JSON, JSON that is no list (42, null), a
\* list holding something that is no object ([1]), and a list of objects
\* without the two keys
NotJson == [items |-> <<>>, ok |-> TRUE, json |-> FALSE, iterable |-> FALSE]
MalformedRuns ==
    { NotJson, PrintsNumber,
      PrintsList(<<[Item(None, None) EXCEPT !.isdict = FALSE]>>),
      PrintsList(<<Item(VS2019, V160), [Item(None, None) EXCEPT !.isdict = FALSE]>>),
      PrintsList(<<Item(None, None)>>) }

LocatorCases ==
    { [environ |-> ("ProgramFiles(x86)" :> PF86) @@ ("ProgramFiles" :> PF),
       files |-> present,
       vswhere |-> ((PF86 \o VSWhereSuffix) :> r1) @@ ((PF \o VSWhereSuffix) :> r2)] :
         present \in {{PF86 \o VSWhereSuffix}, {PF86 \o VSWhereSuffix, PF \o VSWhereSuffix}},
         r1 \in {PrintsList(<<Item(VS2019, V160), Item(VS2022, V174)>>),
                 PrintsList(<<Item(VS2022, V174), Item(VS2019, V160)>>)} \cup MalformedRuns,
         r2 \in {RunFails, PrintsList(<<Item(VS2022, V170)>>)} }

\* a registry probe is <<g, v, e>>: generator, variant and entry number
ProbeKey(h) == <<RegeditKey(h[1], h[2], h[3]), vsEntries[h[3]].value>>
ProbeDir(h) == <<"C:", vsVariants[h[2]], vsEntries[h[3]].value>>

\* which variant and entry answer for one version
HitPatterns ==
    { {}, {<<1, 1>>}, {<<1, 2>>, <<2, 1>>}, {<<3, 2>>, <<2, 2>>, <<3, 1>>} }

RegistryCases ==
    { [registry |-> [k \in {ProbeKey(h) : h \in hits} |->
                        ProbeDir(CHOOSE h \in hits : ProbeKey(h) = k)],
       hits |-> hits] :
        hits \in { UNION { {<<g, x[1], x[2]>> : x \in choice[g]} : g \in DOMAIN choice } :
                     choice \in [1..Len(vsGenerators) -> HitPatterns] } }

\* the legacy tools variables: unset, naming a directory, naming nothing
ToolsCases ==
    { [environ |-> [v \in set \cup missing |-> <<"C:", v, "Common7", "Tools">>],
       dirs |-> { <<"C:", v, "Common7", "Tools">> : v \in set }] :
        set \in SUBSET {"VS140COMNTOOLS", "VS120COMNTOOLS", "VS110COMNTOOLS", "VS90COMNTOOLS"},
        missing \in {{}, {"VS120COMNTOOLS"}} }

CallComGetAllVSInstanceInfo(w, needChipInfo) ==
    /\ direct.fn = "none"
    /\ LET run == ComGetAllVSInstanceInfoRun(w, needChipInfo) IN
       direct' = [ret |-> Return(run.value), needChipInfo |-> needChipInfo,
                  log |-> run.log, fn |-> "ComGetAllVSInstanceInfo", world |-> w]
    /\ UNCHANGED <<chainVars, guidVars, comVars, procVars>>

CallVSWhereGetAllVSInstanceInfo(w) ==
    /\ direct.fn = "none"
    /\ direct' = [ret |-> VSWhereGetAllVSInstanceInfo(w), needChipInfo |-> FALSE,
                  log |-> VSWhereDirs(w, 1, <<>>).invoked,
                  fn |-> "VSWhereGetAllVSInstanceInfo", world |-> w]
    /\ UNCHANGED <<chainVars, guidVars, comVars, procVars>>

CallRegeditGetAllVSInstanceInfo(w) ==
    /\ direct.fn = "none"
    /\ direct' = [ret |-> Return(RegeditGetAllVSInstanceInfo(w)), needChipInfo |-> FALSE,
                  log |-> <<>>, fn |-> "RegeditGetAllVSInstanceInfo", world |-> w]
    /\ UNCHANGED <<chainVars, guidVars, comVars, procVars>>

CallEnvGetAllVSInstanceInfo(w) ==
    /\ direct.fn = "none"
    /\ direct' = [ret |-> Return(EnvGetAllVSInstanceInfo(w)), needChipInfo |-> FALSE,
                  log |-> <<>>, fn |-> "EnvGetAllVSInstanceInfo", world |-> w]
    /\ UNCHANGED <<chainVars, guidVars, comVars, procVars>>

NextStrategy ==
    \/ \E w \in ComCases, needChipInfo \in BOOLEAN : CallComGetAllVSInstanceInfo(w, needChipInfo)
    \/ \E w \in LocatorCases : CallVSWhereGetAllVSInstanceInfo(w)
    \/ \E w \in RegistryCases : CallRegeditGetAllVSInstanceInfo(w)
    \/ \E w \in ToolsCases : CallEnvGetAllVSInstanceInfo(w)

SpecStrategy == Init /\ [][NextStrategy]_vars

----------------------------------------------------------------------------
(* The enumeration loop of the native strategy, one iteration per step *)

\* the disk of ComCases, with no instance delivered yet
EnumDisk == CHOOSE w \in ComCases : w.com.instances = <<>>

\* what IEnumSetupInstances.Next returns when the native call answers the
\* status rc and the pointer p (0 is null): a failed HRESULT raises, "rc != 0
\* or not p" gives None, anything else a proxy
NextResult(rc, p) ==
    IF rc < 0 THEN "raise" ELSE IF rc # 0 \/ p = 0 THEN "None" ELSE "item"

\* mutant of WhileContinues: the loop goes on whatever Next returned
WhileContinuesAlways(fetched, body) == TRUE

\* "while enumInstances.Next(...)": the loop goes on when Next returned a
\* proxy and the body did not raise
WhileContinues(fetched, body) == fetched = "item" /\ body # "raise"

\* ComGetAllVSInstanceInfo reaches its loop
EnumStart(needChipInfo) ==
    /\ enum.pc = "off"
    /\ enum' = [pc |-> "loop", calls |-> 0, state |-> "Ready",
                needChipInfo |-> needChipInfo, instances |-> <<>>, late |-> 0, kinds |-> <<>>]
    /\ UNCHANGED <<chainVars, guidVars, comVars, direct, runtime>>

\* one evaluation of the loop condition and, when it holds, of the loop
\* body.  The enumerator delivers at most MaxInstances items and, once it
\* has answered without an item, never delivers one again.
EnumNext(rc, p, inst) ==
    /\ enum.pc = "loop"
    /\ enum.calls < MaxInstances + 2
    /\ NextResult(rc, p) = "item" =>
          enum.state = "Ready" /\ Len(enum.instances) < MaxInstances
    /\ LET fetched == NextResult(rc, p)
           body == IF fetched # "item" THEN "skipped"
                   ELSE IF "QueryInterface" \in inst.fails THEN "raise"
                   ELSE IF ~inst.qi2 THEN "none"
                   ELSE ComGetOneVSInstanceInfo(EnumDisk, inst, enum.needChipInfo).kind
       IN enum' = [enum EXCEPT
                     !.pc = IF WhileContinues(fetched, body) THEN "loop" ELSE "done",
                     !.state = IF fetched = "item" THEN enum.state ELSE "Exhausted",
                     !.calls = @ + 1,
                     !.late = @ + IF enum.state = "Exhausted" THEN 1 ELSE 0,
                     !.instances = IF fetched = "item" THEN Append(@, inst) ELSE @,
                     !.kinds = IF fetched = "item" THEN Append(@, body) ELSE @]
    /\ UNCHANGED <<chainVars, guidVars, comVars, direct, runtime>>

NextEnum ==
    \/ \E needChipInfo \in BOOLEAN : EnumStart(needChipInfo)
    \/ \E rc \in Statuses, p \in 0..1, inst \in Instances : EnumNext(rc, p, inst)

\* the interpreter keeps running the loop it is in
SpecEnum == Init /\ [][NextEnum]_vars /\ WF_vars(NextEnum)

----------------------------------------------------------------------------
(* The identifier codec on its own: canonical identifier strings *)

Group1 == { <<"0", "0", "0", "0", "0", "0", "0", "0">>, <<"4", "2", "8", "4", "3", "7", "1", "9">>, <<"6", "3", "8", "0", "b", "c", "f", "f">> }
Group2 == { <<"0", "0", "0", "0">>, <<"D", "B", "4", "C">> }
Group3 == { <<"0", "0", "0", "0">>, <<"4", "6", "c", "2">> }
Group4 == { <<"C", "0", "0", "0">>, <<"8", "E", "7", "C">> }
Group5 == { <<"0", "0", "0", "0", "0", "0", "0", "0", "0", "0", "4", "6">>, <<"6", "4", "F", "1", "8", "1", "6", "E", "F", "D", "5", "B">>, <<"5", "9", "4", "c", "c", "c", "c", "d", "6", "b", "f", "5">> }

\* "{8-4-4-4-12}" strings; the first digit keeps Data1 below 2^31
CanonicalNames ==
    { <<"{">> \o g1 \o <<"-">> \o g2 \o <<"-">> \o g3 \o <<"-">> \o g4 \o <<"-">>
      \o g5 \o <<"}">> :
        g1 \in Group1, g2 \in Group2, g3 \in Group3, g4 \in Group4, g5 \in Group5 }

InitGUID ==
    /\ vsInstancesCache = NoCache
    /\ environ = EmptyEnv
    /\ args = DefaultArgs
    /\ outcome = "idle"
    /\ result = <<>>
    /\ executed = <<>>
    /\ hadCache = FALSE
    /\ name \in CanonicalNames
    /\ guid = ZeroGUID /\ text = <<>> /\ guid2 = ZeroGUID /\ pc = "start"
    /\ InitHandles /\ direct = NoDirect /\ runtime = Imported(TRUE, 0) /\ enum = NoEnum

\* guid = GUID(name)
GUIDInit ==
    /\ pc = "start"
    /\ guid' = GUID(name)
    /\ pc' = "built"
    /\ UNCHANGED <<chainVars, name, text, guid2, comVars, direct, procVars>>

\* text = str(guid)
GUIDFormat ==
    /\ pc = "built" /\ ~guid.raised
    /\ text' = GUIDStr(guid)
    /\ pc' = "formatted"
    /\ UNCHANGED <<chainVars, name, guid, guid2, comVars, direct, procVars>>

\* guid2 = GUID(text)
GUIDReparse ==
    /\ pc = "formatted"
    /\ guid2' = GUID(text)
    /\ pc' = "reparsed"
    /\ UNCHANGED <<chainVars, name, guid, text, comVars, direct, procVars>>

NextGUID == GUIDInit \/ GUIDFormat \/ GUIDReparse

SpecGUID == InitGUID /\ [][NextGUID]_vars

----------------------------------------------------------------------------
(* The identifier parser on its own: texts with and without a pattern *)

\* two patterns, and four texts that miss being one: a first group and a
\* last group one digit short, a character that is no hex digit, a hyphen
\* missing; and the empty text
Cores ==
    { <<>>,
      <<"4", "2", "8", "4", "3", "7", "1", "9", "-", "D", "B", "4", "C", "-", "4", "6", "C", "2", "-", "8", "E", "7", "C", "-", "6", "4", "F", "1", "8", "1", "6", "E", "F", "D", "5", "B">>,
      <<"0", "0", "0", "0", "0", "0", "0", "0", "-", "0", "0", "0", "0", "-", "0", "0", "0", "0", "-", "c", "0", "0", "0", "-", "0", "0", "0", "0", "0", "0", "0", "0", "0", "0", "4", "6">>,
      <<"2", "8", "4", "3", "7", "1", "9", "-", "D", "B", "4", "C", "-", "4", "6", "C", "2", "-", "8", "E", "7", "C", "-", "6", "4", "F", "1", "8", "1", "6", "E", "F", "D", "5", "B">>,
      <<"4", "2", "8", "4", "3", "7", "1", "9", "-", "D", "B", "4", "C", "-", "4", "6", "C", "2", "-", "8", "E", "7", "C", "-", "6", "4", "F", "1", "8", "1", "6", "E", "F", "D", "5">>,
      <<"4", "2", "8", "4", "3", "7", "1", "g", "-", "D", "B", "4", "C", "-", "4", "6", "C", "2", "-", "8", "E", "7", "C", "-", "6", "4", "F", "1", "8", "1", "6", "E", "F", "D", "5", "B">>,
      <<"4", "2", "8", "4", "3", "7", "1", "9", "D", "B", "4", "C", "-", "4", "6", "C", "2", "-", "8", "E", "7", "C", "-", "6", "4", "F", "1", "8", "1", "6", "E", "F", "D", "5", "B">> }

Prefixes == { <<>>, <<"{">>, <<"1">>, <<"x">>, <<"-">>, <<"i", "d", "=">>, <<"x", "{">> }
Suffixes == { <<>>, <<"}">>, <<"0">>, <<"z">> }

ParseTexts == { pre \o core \o post : pre \in Prefixes, core \in Cores, post \in Suffixes }

InitParse ==
    /\ vsInstancesCache = NoCache
    /\ environ = EmptyEnv
    /\ args = DefaultArgs
    /\ outcome = "idle"
    /\ result = <<>>
    /\ executed = <<>>
    /\ hadCache = FALSE
    /\ name \in ParseTexts
    /\ guid = ZeroGUID /\ text = <<>> /\ guid2 = ZeroGUID /\ pc = "start"
    /\ InitHandles /\ direct = NoDirect /\ runtime = Imported(TRUE, 0) /\ enum = NoEnum

\* text = "{" + name + "}" and guid2 = GUID(text)
GUIDBraced ==
    /\ pc = "built"
    /\ text' = <<"{">> \o name \o <<"}">>
    /\ guid2' = GUID(text')
    /\ pc' = "braced"
    /\ UNCHANGED <<chainVars, name, guid, comVars, direct, procVars>>

NextParse == GUIDInit \/ GUIDBraced

SpecParse == InitParse /\ [][NextParse]_vars

----------------------------------------------------------------------------
(* The interface proxies on their own *)

\* interface(comInterface, owner), IUnknown.__init__: comInterface is 0
\* for None and for a null pointer, which leave the same proxy.  An owner
\* takes over the reference that came with the pointer; a non-owner adds
\* its own with AddRef.
Construct(cls, comInterface, owner) ==
    /\ ~exited
    /\ Len(handles) < MaxHandles
    /\ LET self == SetComInterface(cls, comInterface)
           call == InitAddRef(self, comInterface, owner)
           units == (IF comInterface # 0 /\ owner THEN 1 ELSE 0)
                    + (IF call # <<>> THEN 1 ELSE 0)
       IN
       /\ handles' = Append(handles, self)
       /\ released' = Append(released, 0)
       /\ refcount' = IF comInterface # 0
                      THEN [refcount EXCEPT ![comInterface] = @ + units]
                      ELSE refcount
       /\ last' = [op |-> "__init__", handle |-> Len(handles) + 1, kind |-> "returned",
                   call |-> call, ret |-> 0]
    /\ UNCHANGED <<chainVars, guidVars, exited, direct, procVars>>

\* handles[h].QueryInterface(interface), the native call answering with
\* status rc and the pointer p.  A negative rc is a failed HRESULT, which
\* the restype ctypes.HRESULT turns into an OSError; the native side adds a
\* reference exactly when it answers 0 with a pointer.
QueryInterface(h, interface, rc, p) ==
    /\ ~exited
    /\ h \in 1..Len(handles)
    /\ Len(handles) < MaxHandles
    /\ rc # 0 => p = 0
    /\ LET call == ComCall(handles[h], "IUnknown", "QueryInterface")
           kind == IF call = <<>> \/ rc < 0 THEN "raised"
                   ELSE IF rc # 0 THEN "None" ELSE "handle"
       IN /\ last' = [op |-> "QueryInterface", handle |-> h, kind |-> kind, call |-> call,
                      ret |-> IF kind = "handle" THEN Len(handles) + 1 ELSE 0]
          /\ IF kind = "handle"
             THEN /\ handles' = Append(handles, SetComInterface(interface, p))
                  /\ released' = Append(released, 0)
                  /\ refcount' = IF p # 0 THEN [refcount EXCEPT ![p] = @ + 1]
                                 ELSE refcount
             ELSE UNCHANGED <<handles, released, refcount>>
    /\ UNCHANGED <<chainVars, guidVars, exited, direct, procVars>>

\* handles[h].<methodName>(...), a wrapper written in class cls: its
\* first step is the native call
CallMethod(h, cls, methodName) ==
    /\ ~exited
    /\ h \in 1..Len(handles)
    /\ cls \in Lineage(handles[h].cls) \ {"IUnknown"}
    /\ methodName \in Wrappers(cls)
    /\ LET call == ComCall(handles[h], cls, methodName) IN
       last' = [op |-> methodName, handle |-> h,
                kind |-> IF call = <<>> THEN "raised" ELSE "called",
                call |-> call, ret |-> 0]
    /\ UNCHANGED <<chainVars, guidVars, handles, refcount, released, exited, direct, procVars>>

\* interpreter shutdown: the registered _AutoCleanComReference_ of every
\* proxy and UninitCom run once each
Exit ==
    /\ ~exited
    /\ exited' = TRUE
    /\ released' = [h \in 1..Len(handles) |->
                      released[h] + IF AutoCleanComReference(handles[h]) # <<>> THEN 1 ELSE 0]
    /\ refcount' = [o \in Objects |->
                      refcount[o] - Cardinality({h \in 1..Len(handles) :
                                       /\ AutoCleanComReference(handles[h]) # <<>>
                                       /\ AutoCleanComReference(handles[h])[1] = o})]
    /\ last' = [op |-> "atexit", handle |-> 0, kind |-> "returned", call |-> <<>>, ret |-> 0]
    /\ runtime' = RunCallbacks(runtime, handles, ExitOrder(Callbacks(handles)))
    /\ UNCHANGED <<chainVars, guidVars, handles, direct, enum>>

NextCatalog ==
    \E cls \in Interfaces, comInterface \in 0..NumObjects : Construct(cls, comInterface, TRUE)

SpecCatalog == Init /\ [][NextCatalog]_vars

\* the proxy classes the lifecycle is explored with: the root class, a
\* class two levels below it and a class one level below it
HandleClasses == {"IUnknown", "ISetupInstance2", "ISetupPackageReference"}

NextHandle ==
    \/ \E cls \in HandleClasses, comInterface \in 0..NumObjects, owner \in BOOLEAN :
          Construct(cls, comInterface, owner)
    \/ \E h \in 1..MaxHandles, interface \in HandleClasses, rc \in Statuses,
          p \in 0..NumObjects : QueryInterface(h, interface, rc, p)
    \/ \E h \in 1..MaxHandles, cls \in Interfaces :
          \E methodName \in Wrappers(cls) : CallMethod(h, cls, methodName)
    \/ Exit

SpecHandle == Init /\ [][NextHandle]_vars

----------------------------------------------------------------------------
(* The native runtime from import to exit *)

\* the module was imported, with any outcome of its InitCom()
InitRuntime ==
    /\ vsInstancesCache = NoCache
    /\ environ = EmptyEnv
    /\ args = DefaultArgs
    /\ outcome = "idle"
    /\ result = <<>>
    /\ executed = <<>>
    /\ hadCache = FALSE
    /\ name = <<>> /\ guid = ZeroGUID /\ text = <<>> /\ guid2 = ZeroGUID /\ pc = "off"
    /\ InitHandles /\ direct = NoDirect /\ enum = NoEnum
    /\ runtime \in {Imported(loads, rc) : loads \in BOOLEAN, rc \in Statuses}

\* InitCom() called again by the program
InitCom(loads, rc) ==
    /\ ~exited
    /\ Len(runtime.calls) < MaxInits
    /\ runtime' = InitComCall(runtime, loads, rc)
    /\ UNCHANGED <<chainVars, guidVars, comVars, direct, enum>>

NextRuntime ==
    \/ \E loads \in BOOLEAN, rc \in Statuses : InitCom(loads, rc)
    \/ \E cls \in HandleClasses, comInterface \in 0..NumObjects, owner \in BOOLEAN :
          Construct(cls, comInterface, owner)
    \/ Exit

SpecRuntime == InitRuntime /\ [][NextRuntime]_vars

----------------------------------------------------------------------------
(* Properties of the identifier codec *)

\* C8: for a canonical identifier string s, str(GUID(s)) is s upper-cased,
\* and GUID(str(x)) has the 16 bytes of x.
C8_RoundTrip ==
    /\ pc \in {"formatted", "reparsed"} => text = upper(name)
    /\ pc = "reparsed" => guid2 = guid

\* the text holds an 8-4-4-4-12 pattern somewhere
ContainsPattern(t) == \E i \in 0..Len(t) : MatchesAt(t, i)

\* the leftmost pattern of the text
Located(t) ==
    LET i == CHOOSE i \in 0..Len(t) :
                 MatchesAt(t, i) /\ \A j \in 0..(i - 1) : ~MatchesAt(t, j)
    IN SubSeq(t, i + 1, i + PatternLen)

\* the identifier whose segments are the hex groups of the pattern p
FromPattern(p) ==
    LET tail == SubSeq(p, 20, 23) \o SubSeq(p, 25, 36) IN
    [raised |-> FALSE,
     Data1 |-> Int16(SubSeq(p, 1, 8)),
     Data2 |-> Int16(SubSeq(p, 10, 13)),
     Data3 |-> Int16(SubSeq(p, 15, 18)),
     Data4 |-> [i \in 0..7 |-> Int16(SubSeq(tail, 2 * i + 1, 2 * i + 2))]]

\* C25: for a text that holds no 8-4-4-4-12 pattern, GUID(text) raises
\* nothing and is the all-zero identifier
C25_NoPatternIsZero ==
    pc \in {"built", "braced"} /\ ~ContainsPattern(name) => guid = ZeroGUID

\* a text that is one character short of a pattern was parsed
C25_Witness ==
    /\ pc = "built"
    /\ ~ContainsPattern(name)
    /\ Len(name) = PatternLen - 1

\* C26: for a text that holds a pattern, whatever surrounds it, GUID(text)
\* is the identifier made of the hex groups of that pattern, and putting
\* the text in braces changes nothing
C26_PatternIsLocated ==
    /\ pc \in {"built", "braced"} /\ ContainsPattern(name) =>
          guid = FromPattern(Located(name))
    /\ pc = "braced" => guid2 = guid

----------------------------------------------------------------------------
(* Properties of the vtable binding *)

\* the number of methods the ancestors of cls declare
RECURSIVE AncestorMethods(_)
AncestorMethods(cls) ==
    IF cls = "IUnknown" THEN 0
    ELSE Len(Methods(Base(cls))) + AncestorMethods(Base(cls))

\* C9: the binding of a method declared at local slot i of an interface
\* reads vtable entry base + i, base being the number of methods the
\* ancestors of the interface declare: 0 for IUnknown, 3 for an interface
\* deriving from IUnknown, 6 for ISetupConfiguration2, 11 for
\* ISetupInstance2.
C9_AbsoluteSlot ==
    \A h \in 1..Len(handles) :
        handles[h].IThis # 0 =>
          /\ \A c \in Lineage(handles[h].cls) : \A k \in 1..Len(Methods(c)) :
                handles[h].attrs[<<c, Methods(c)[k].name>>]
                  = <<handles[h].IThis, AncestorMethods(c) + Methods(c)[k].idx>>
          /\ handles[h].attrs[<<"IUnknown", "QueryInterface">>][2] = 0
          /\ handles[h].cls = "IEnumSetupInstances"
                => handles[h].attrs[<<"IEnumSetupInstances", "Next">>][2] = 3
          /\ handles[h].cls = "ISetupConfiguration2"
                => handles[h].attrs[<<"ISetupConfiguration2", "EnumAllInstances">>][2] = 6
          /\ handles[h].cls = "ISetupInstance2"
                => handles[h].attrs[<<"ISetupInstance2", "GetState">>][2] = 11

\* a proxy of ISetupInstance2 whose GetState reads entry 11
C9_Witness ==
    \E h \in 1..Len(handles) :
        /\ handles[h].cls = "ISetupInstance2" /\ handles[h].IThis # 0
        /\ handles[h].attrs[<<"ISetupInstance2", "GetState">>] = <<handles[h].IThis, 11>>

\* C10: in every interface the local slots of the declared methods are
\* 0, 1, ..., n-1 in declaration order, _method_count is n, and no two
\* methods of the interface bind to the same vtable entry.
C10_SlotsContiguous ==
    \A h \in 1..Len(handles) : \A c \in Lineage(handles[h].cls) :
        /\ \A k \in 1..Len(Methods(c)) : Methods(c)[k].idx = k - 1
        /\ MethodCount(c) = Len(Methods(c))
        /\ handles[h].IThis # 0 =>
             \A k1, k2 \in 1..Len(Methods(c)) :
                k1 # k2 => handles[h].attrs[<<c, Methods(c)[k1].name>>]
                             # handles[h].attrs[<<c, Methods(c)[k2].name>>]

----------------------------------------------------------------------------
(* Properties of the strategy chain *)

Called == outcome # "idle"

RanOnly(fns) == \A i \in 1..Len(executed) : executed[i].fn \in fns

\* the session flags as the embedded-kit strategy is documented to read them
SessionFlags(env) ==
    /\ "EnterpriseWDK" \in DOMAIN env /\ "DisableRegistryUse" \in DOMAIN env
    /\ lower(env["EnterpriseWDK"]) = <<"t", "r", "u", "e">>
    /\ lower(env["DisableRegistryUse"]) = <<"t", "r", "u", "e">>

SessionVersion(env) ==
    /\ "VisualStudioVersion" \in DOMAIN env
    /\ env["VisualStudioVersion"] # None
    /\ env["VisualStudioVersion"] # <<>>

\* C1: GetAllVSInstanceInfo never raises to its caller, whatever its
\* arguments and whatever the collaborators do.
C1_NeverRaises == outcome # "raised"

\* C2 as stated: of two successive calls with ignoreCache=False the second
\* returns the list the first returned, whatever the first returned.
C2_SecondCallReturnsSame ==
    [][(outcome = "returned" /\ ~args.ignoreCache
        /\ outcome' = "returned" /\ ~args'.ignoreCache)
       => result' = result]_vars

\* C2 amended: when a call with ignoreCache=False returned a non-empty
\* list, the next call with ignoreCache=False returns that list, runs no
\* strategy and leaves the cache alone.
C2_NonEmptyIsCached ==
    [][(outcome = "returned" /\ ~args.ignoreCache /\ result # <<>>
        /\ ~args'.ignoreCache)
       => (outcome' = "returned" /\ result' = result /\ executed' = <<>>
           /\ vsInstancesCache' = vsInstancesCache)]_vars

\* a call answered from the cache although the chain would now answer
\* otherwise: the session environment would yield the embedded-kit record
C2_Witness ==
    /\ outcome = "returned" /\ ~args.ignoreCache /\ ~args.skipEWDK
    /\ hadCache /\ executed = <<>>
    /\ SessionFlags(environ) /\ SessionVersion(environ)
    /\ Len(result) > 1

StrategyOrder ==
    <<"GetEWDKAllVSInstanceInfo", "ComGetAllVSInstanceInfo",
      "VSWhereGetAllVSInstanceInfo", "RegeditGetAllVSInstanceInfo",
      "EnvGetAllVSInstanceInfo", "GetCMakeDefaultVSInstanceInfo">>

Position(fn) == CHOOSE k \in 1..Len(StrategyOrder) : StrategyOrder[k] = fn

\* the strategies that must have come back empty before fn is run
Blockers(fn) ==
    CASE fn = "GetEWDKAllVSInstanceInfo" -> {}
      [] fn = "ComGetAllVSInstanceInfo" -> {"GetEWDKAllVSInstanceInfo"}
      [] fn = "VSWhereGetAllVSInstanceInfo" ->
           {"GetEWDKAllVSInstanceInfo", "ComGetAllVSInstanceInfo"}
      [] fn = "RegeditGetAllVSInstanceInfo" -> {"GetEWDKAllVSInstanceInfo"}
      [] fn = "EnvGetAllVSInstanceInfo" ->
           {"GetEWDKAllVSInstanceInfo", "RegeditGetAllVSInstanceInfo"}
      [] fn = "GetCMakeDefaultVSInstanceInfo" ->
           {"GetEWDKAllVSInstanceInfo", "ComGetAllVSInstanceInfo",
            "VSWhereGetAllVSInstanceInfo", "RegeditGetAllVSInstanceInfo",
            "EnvGetAllVSInstanceInfo"}

RECURSIVE SumYielded(_)
SumYielded(ran) == IF ran = <<>> THEN 0 ELSE Head(ran).yielded + SumYielded(Tail(ran))

\* C3 as stated: a strategy runs only if every strategy run before it in
\* the call came back empty, so the list returned is the yield of one
\* strategy.
C3_OnlyAfterAllEmpty ==
    /\ \A i, j \in 1..Len(executed) : j < i => executed[j].yielded = 0
    /\ Cardinality({i \in 1..Len(executed) : executed[i].yielded > 0}) <= 1

\* C3 amended: the strategies run in the fixed order; the native COM
\* strategy runs only after an empty embedded-kit result, the locator only
\* after empty embedded-kit and COM results, the registry strategy after an
\* empty embedded-kit result whatever COM and the locator found, the
\* environment strategy only after empty embedded-kit and registry results,
\* the build-tool default only after all five came back empty; the list
\* returned is the yield of the strategies run, one after the other.
C3_StagedChain ==
    /\ \A i, j \in 1..Len(executed) :
          j < i => Position(executed[j].fn) < Position(executed[i].fn)
    /\ \A i \in 1..Len(executed) : \A b \in Blockers(executed[i].fn) :
          \E j \in 1..(i - 1) : executed[j].fn = b /\ executed[j].yielded = 0
    /\ (outcome = "returned" /\ executed # <<>>) => Len(result) = SumYielded(executed)

\* a call that returned the COM records followed by the registry records
C3_Witness ==
    /\ outcome = "returned"
    /\ \E i, j \in 1..Len(executed) :
          /\ executed[i].fn = "ComGetAllVSInstanceInfo" /\ executed[i].yielded > 0
          /\ executed[j].fn = "RegeditGetAllVSInstanceInfo" /\ executed[j].yielded > 0
          /\ Len(result) = executed[i].yielded + executed[j].yielded

\* C4 as stated: with skipEWDK=False and both session flags 'true' the call
\* returns exactly one record and runs no strategy but the embedded-kit one.
C4_SessionShortCircuits ==
    (Called /\ ~args.skipEWDK /\ SessionFlags(environ))
    => (outcome = "returned" /\ Len(result) = 1
        /\ RanOnly({"GetEWDKAllVSInstanceInfo"}))

\* C4 amended: with skipEWDK=False, both session flags 'true' (in any
\* letter case) and VisualStudioVersion set to a non-empty value, the call
\* runs no strategy but the embedded-kit one, and unless it is answered
\* from the cache it returns exactly one record.
C4_SessionWithVersionShortCircuits ==
    (Called /\ ~args.skipEWDK /\ SessionFlags(environ) /\ SessionVersion(environ))
    => (/\ outcome = "returned"
        /\ RanOnly({"GetEWDKAllVSInstanceInfo"})
        /\ executed # <<>> => (Len(result) = 1 /\ executed[1].yielded = 1))

\* the embedded-kit record returned in a session whose flag is spelt "True"
C4_Witness ==
    /\ Called /\ ~args.skipEWDK /\ SessionFlags(environ) /\ SessionVersion(environ)
    /\ environ["EnterpriseWDK"] # <<"t", "r", "u", "e">>
    /\ Len(executed) = 1 /\ Len(result) = 1

\* C5: the embedded-kit record takes Version, VSInstallLocation,
\* VCToolsetVersion and chip from VisualStudioVersion, VSINSTALLDIR,
\* VCToolsVersion and VSCMD_ARG_TGT_ARCH, has bWin10SDK True, and has
\* bWin81SDK True exactly when WindowsSdkDir_81 is set and non-empty, False
\* otherwise.
C5_RecordFromEnvironment ==
    \A i \in 1..Len(result) :
        /\ result[i].Version = environ["VisualStudioVersion"]
        /\ result[i].VSInstallLocation = environ["VSINSTALLDIR"]
        /\ result[i].VCToolsetVersion = environ["VCToolsVersion"]
        /\ result[i].chip = environ["VSCMD_ARG_TGT_ARCH"]
        /\ result[i].bWin10SDK = <<"True">>
        /\ result[i].bWin81SDK =
             (IF environ["WindowsSdkDir_81"] \in {<<"None">>, <<>>}
              THEN <<"False">> ELSE <<"True">>)

\* a record synthesized while WindowsSdkDir_81 is unset
C5_Witness ==
    /\ outcome = "returned" /\ Len(result) = 1
    /\ environ["WindowsSdkDir_81"] = <<"None">>
    /\ result[1].bWin81SDK = <<"False">>
    /\ result[1].Version = <<"1", "7", ".", "0">>

\* C6: every record of every returned list has a non-empty version string.
C6_VersionNonEmpty ==
    outcome = "returned"
    => \A i \in 1..Len(result) : result[i].Version \notin {<<"None">>, <<>>}

\* C7: a call with ignoreCache=True runs the chain from its first strategy,
\* whatever the cache holds.
C7_BypassRerunsChain ==
    (Called /\ args.ignoreCache)
    => (executed # <<>> /\ executed[1].fn = "GetEWDKAllVSInstanceInfo")

\* a bypassing call made while the cache held a list
C7_Witness ==
    /\ Called /\ args.ignoreCache /\ hadCache
    /\ executed # <<>> /\ outcome = "returned"

\* C27: when a call returns, the cache holds the list the call returned, and
\* so the records of every strategy the call ran, never the list of an
\* earlier stage of the chain
C27_CacheIsWhatWasReturned ==
    outcome = "returned" =>
        /\ vsInstancesCache = Cached(result)
        /\ executed # <<>> => Len(vsInstancesCache.items) = SumYielded(executed)

\* a call whose native strategy and registry strategy both yielded records
C27_Witness ==
    /\ outcome = "returned"
    /\ \E i, j \in DOMAIN executed :
          /\ executed[i].fn = "ComGetAllVSInstanceInfo" /\ executed[i].yielded > 0
          /\ executed[j].fn = "RegeditGetAllVSInstanceInfo" /\ executed[j].yielded > 0
    /\ vsInstancesCache.items = result

----------------------------------------------------------------------------
(* Properties of the interface proxies *)

\* the proxies that wrap the object o
Holders(o) == {h \in 1..Len(handles) : handles[h].IThis = o}

\* C11: a proxy around a non-null pointer issues exactly one Release, at the
\* exit-time cleanup and not before; a proxy around a null pointer issues
\* none.  Every reference the process holds (taken over with a pointer,
\* added by AddRef or by a successful QueryInterface) belongs to exactly one
\* proxy until exit and is given back by that proxy's Release.
C11_OneReleasePerHandle ==
    /\ Len(released) = Len(handles)
    /\ \A h \in 1..Len(handles) :
          released[h] = IF exited /\ handles[h].IThis # 0 THEN 1 ELSE 0
    /\ \A o \in Objects :
          refcount[o] = IF exited THEN 0 ELSE Cardinality(Holders(o))

\* after exit: a proxy around an object has released once, a proxy around
\* the null pointer has not
C11_Witness ==
    /\ exited
    /\ \E h \in 1..Len(handles) : handles[h].IThis # 0 /\ released[h] = 1
    /\ \E h \in 1..Len(handles) : handles[h].IThis = 0 /\ released[h] = 0

\* C19: a QueryInterface whose native call was made returns a proxy only
\* around a non-null pointer, and never raises.
C19_QueryInterfaceResult ==
    (last.op = "QueryInterface" /\ last.call # <<>>) =>
        /\ last.kind # "raised"
        /\ last.kind = "handle" => handles[last.ret].IThis # 0

\* C20: no native call is dispatched on the null pointer or through the
\* vtable of the null pointer: a proxy around the null pointer has no bound
\* method and issues no Release, and every method called on it raises
\* before any native call.
C20_NullNeverDereferenced ==
    /\ last.call # <<>> => (last.call[1] # 0 /\ last.call[2] # 0)
    /\ \A h \in 1..Len(handles) :
          handles[h].IThis = 0 => (DOMAIN handles[h].attrs = {} /\ released[h] = 0)
    /\ (last.handle # 0 /\ last.op # "__init__" /\ handles[last.handle].IThis = 0)
          => (last.kind = "raised" /\ last.call = <<>>)

\* GetState called on a proxy around the null pointer
C20_Witness ==
    /\ last.op = "GetState"
    /\ handles[last.handle].IThis = 0
    /\ last.kind = "raised"

\* C21: constructing a proxy with owner = False around a non-null pointer
\* issues AddRef exactly once, on that pointer; constructing one with
\* owner = True, or around a null pointer, issues none; either way the new
\* proxy accounts for one reference on its object, and for none when null
C21_AddRefOnConstruction ==
    [][\A cls \in HandleClasses, comInterface \in 0..NumObjects, owner \in BOOLEAN :
          Construct(cls, comInterface, owner) =>
             /\ (last'.call # <<>>) = (comInterface # 0 /\ ~owner)
             /\ last'.call # <<>> =>
                   last'.call = <<comInterface>> \o VTable(comInterface)[1]
             /\ \A o \in Objects :
                   refcount'[o] = refcount[o] + IF o = comInterface THEN 1 ELSE 0]_vars

\* a proxy was just built as a non-owner around an object, and one as an
\* owner before it
C21_Witness ==
    /\ last.op = "__init__"
    /\ last.handle = 2
    /\ last.call # <<>>
    /\ handles[1].IThis # 0

\* the positions of the calls of fn among the runtime calls
CallsOf(fn) == {i \in DOMAIN runtime.calls : runtime.calls[i][1] = fn}

\* C24: however often InitCom is invoked the runtime is initialized once;
\* the teardown runs once at exit; and when no initialization succeeded the
\* teardown does not call into the runtime
C24_RuntimeInitializedOnce ==
    /\ runtime.inits <= 1
    /\ exited => runtime.teardowns = 1
    /\ exited /\ runtime.inits = 0 => CallsOf("CoUninitialize") = {}

\* C28: at exit every Release of a proxy is dispatched before
\* CoUninitialize, none after it, and every proxy around an object
\* dispatches its Release
C28_ReleaseBeforeTeardown ==
    /\ \A i \in CallsOf("CoUninitialize"), j \in CallsOf("Release") : j < i
    /\ exited =>
          {runtime.calls[j][2] : j \in CallsOf("Release")}
             = {h \in 1..Len(handles) : handles[h].IThis # 0}

\* after exit: two proxies have released and the runtime was torn down
C28_Witness ==
    /\ exited
    /\ Cardinality(CallsOf("Release")) = 2
    /\ CallsOf("CoUninitialize") # {}

----------------------------------------------------------------------------
(* Properties of the strategy functions *)

\* the first probe, in generator, variant, entry order, that answers for
\* generator g
FirstHit(hits, g) ==
    CHOOSE h \in hits :
        /\ h[1] = g
        /\ \A x \in hits : x[1] = g =>
              \/ h[2] < x[2]
              \/ h[2] = x[2] /\ h[3] <= x[3]

\* C12: the registry strategy returns at most one record per version, the
\* record of the first probe that answered for it, and in every record it
\* returns the toolset version, the two SDK flags and the chip are unset
C12_RegistryFirstProbeWins ==
    direct.fn = "RegeditGetAllVSInstanceInfo" =>
        LET out == direct.ret.value
            hits == direct.world.hits
        IN /\ \A i, j \in DOMAIN out : out[i].Version = out[j].Version => i = j
           /\ {out[i].Version : i \in DOMAIN out} = {vsGenerators[h[1]] : h \in hits}
           /\ \A i \in DOMAIN out : \E g \in DOMAIN vsGenerators :
                 /\ out[i].Version = vsGenerators[g]
                 /\ out[i].VSInstallLocation =
                       <<"tuple">> \o ProbeDir(FirstHit(hits, g)) \o <<"REG_SZ">>
                 /\ out[i].VCToolsetVersion = None
                 /\ out[i].bWin10SDK = None
                 /\ out[i].bWin81SDK = None
                 /\ out[i].chip = None

\* two versions found, one of them by three probes
C12_Witness ==
    /\ direct.fn = "RegeditGetAllVSInstanceInfo"
    /\ Len(direct.ret.value) = 2
    /\ \E g \in DOMAIN vsGenerators :
          Cardinality({h \in direct.world.hits : h[1] = g}) = 3

\* l is in descending lexicographic order of its version strings
Descending(l) ==
    \A i, j \in DOMAIN l : i < j => ~StrLess(getVersion(l[i]), getVersion(l[j]))

\* C13: each strategy that can return several records (native COM, locator,
\* registry, environment) returns them sorted by version string, descending;
\* registry hits for 14.0 and 12.0 come back as 14.0, 12.0
C13_StrategiesSortDescending ==
    /\ direct.fn \in {"ComGetAllVSInstanceInfo", "VSWhereGetAllVSInstanceInfo",
                      "RegeditGetAllVSInstanceInfo", "EnvGetAllVSInstanceInfo"}
          /\ ~direct.ret.raised
       => Descending(direct.ret.value)
    /\ direct.fn = "RegeditGetAllVSInstanceInfo"
          /\ {vsGenerators[h[1]] : h \in direct.world.hits} = {vsGenerators[1], vsGenerators[2]}
       => /\ Len(direct.ret.value) = 2
          /\ direct.ret.value[1].Version = vsGenerators[1]
          /\ direct.ret.value[2].Version = vsGenerators[2]

\* what the COM strategy did with instance number i of its last direct call
Fetched == IF direct.fn = "ComGetAllVSInstanceInfo" THEN DOMAIN direct.log ELSE {}
InstanceAt(i) == direct.world.com.instances[i]
Extracted(i) == InstanceAt(i).qi2 /\ "QueryInterface" \notin InstanceAt(i).fails

Unreadable(inst, methodName, value) == methodName \in inst.fails \/ value \in {None, <<>>}

StateHasLocalBit(inst) ==
    "GetState" \notin inst.fails /\ inst.stateOK /\ HasBit(inst.state, eLocal)

Performed(i, steps) == {direct.log[i].steps[k] : k \in DOMAIN direct.log[i].steps} \cap steps # {}

\* the number of instances that ended in a record
Records == Cardinality({i \in Fetched : direct.log[i].kind = "rec"})

\* C14: an instance whose version read fails or is empty gives no record, and
\* so does an instance whose state has the local bit and whose install path
\* read fails or is empty; for neither is the marker file read or GetProduct
\* or GetPackages called
C14_NoRecordWithoutVersionOrPath ==
    /\ \A i \in Fetched :
        /\ Extracted(i) /\ Unreadable(InstanceAt(i), "GetInstallationVersion", InstanceAt(i).version)
           => /\ direct.log[i].kind # "rec"
              /\ ~Performed(i, {"GetInstallationPath", "isdir", "isfile", "readline",
                          "GetProduct", "GetPackages"})
        /\ Extracted(i) /\ StateHasLocalBit(InstanceAt(i))
              /\ Unreadable(InstanceAt(i), "GetInstallationPath", InstanceAt(i).path)
           => /\ direct.log[i].kind # "rec"
              /\ ~Performed(i, {"isdir", "isfile", "readline", "GetProduct", "GetPackages"})
    /\ direct.fn = "ComGetAllVSInstanceInfo" => Len(direct.ret.value) = Records

\* an instance with an empty version followed by one with an empty path
C14_Witness ==
    /\ Fetched = {1, 2}
    /\ InstanceAt(1).version = <<>>
    /\ direct.log[1].steps = <<"GetState", "GetInstallationVersion">>
    /\ InstanceAt(2).path = <<>> /\ InstanceAt(2).version # <<>>
    /\ direct.log[2].steps = <<"GetState", "GetInstallationVersion", "GetInstallationPath">>

\* the instance passes the state, version and install-path steps
PassesSteps(inst) ==
    /\ StateHasLocalBit(inst)
    /\ ~Unreadable(inst, "GetInstallationVersion", inst.version)
    /\ ~Unreadable(inst, "GetInstallationPath", inst.path)

\* no marker file beneath the install path, or one naming a toolset
\* directory that does not exist
NoUsableMarker(w, inst) ==
    \/ inst.path \o <<"VC", "Auxiliary", "Build", "Microsoft.VCToolsVersion.default.txt">>
          \notin w.files
    \/ inst.path \o <<"VC", "Tools", "MSVC">> \o w.marker[MarkerPath(inst.path)] \notin w.dirs

\* the package steps are not performed, or every one of them succeeds
PackageStepsPass(inst, needChipInfo) ==
    \/ ~needChipInfo
    \/ ~HasBit(inst.state, eRegistered)
    \/ /\ inst.fails \cap {"GetProduct", "GetPackages"} = {}
       /\ inst.product /\ inst.packagesOK
       /\ \A k \in DOMAIN inst.packages :
             inst.packages[k].ptr /\ (inst.packages[k].qi => inst.packages[k].id # None)

YieldsRecordWithoutToolset(i) ==
    /\ direct.log[i].kind = "rec"
    /\ direct.log[i].rec.VCToolsetVersion = None
    /\ \E k \in DOMAIN direct.ret.value : direct.ret.value[k] = direct.log[i].rec

\* C15 as stated: an instance that passes the state, version and install-path
\* steps and has no usable marker file yields a record with the toolset
\* version unset
C15_MarkerlessYieldsRecord ==
    \A i \in Fetched :
        Extracted(i) /\ PassesSteps(InstanceAt(i)) /\ NoUsableMarker(direct.world, InstanceAt(i))
        => YieldsRecordWithoutToolset(i)

\* C15, amended: the same, for an instance whose install path is an existing
\* directory and whose package steps, when they are performed, all succeed
C15_MarkerlessYieldsRecordInDirectory ==
    \A i \in Fetched :
        Extracted(i) /\ PassesSteps(InstanceAt(i)) /\ NoUsableMarker(direct.world, InstanceAt(i))
           /\ InstanceAt(i).path \in direct.world.dirs
           /\ PackageStepsPass(InstanceAt(i), direct.needChipInfo)
        => YieldsRecordWithoutToolset(i)

\* one instance without a marker and one with a stale marker, both recorded
C15_Witness ==
    /\ Fetched = {1, 2}
    /\ InstanceAt(1).path = VS2019 /\ InstanceAt(2).path = VSStale
    /\ direct.needChipInfo
    /\ "readline" \in {direct.log[2].steps[k] : k \in DOMAIN direct.log[2].steps}
    /\ direct.log[1].kind = "rec" /\ direct.log[2].kind = "rec"

\* C16: an instance whose state is readable and lacks the local bit, with a
\* non-empty version, does not have its install path read and yields a
\* record with the install path unset; nothing is raised
C16_NotLocalYieldsRecord ==
    \A i \in Fetched :
        LET inst == InstanceAt(i) IN
        Extracted(i) /\ "GetState" \notin inst.fails /\ inst.stateOK /\ inst.state # 0
           /\ ~HasBit(inst.state, eLocal)
           /\ ~Unreadable(inst, "GetInstallationVersion", inst.version)
        => /\ ~Performed(i, {"GetInstallationPath"})
           /\ direct.log[i].kind = "rec"
           /\ direct.log[i].rec.VSInstallLocation = None
           /\ \E k \in DOMAIN direct.ret.value : direct.ret.value[k] = direct.log[i].rec

\* C17: whatever happens to one instance, every instance the enumerator
\* delivers is fetched and extracted, and the record of each instance that
\* passes its own steps is returned
C17_EnumerationNeverStops ==
    direct.fn = "ComGetAllVSInstanceInfo" /\ direct.world.com.create
    => /\ Fetched = DOMAIN direct.world.com.instances
       /\ \A i \in DOMAIN direct.world.com.instances :
             LET inst == InstanceAt(i)
                 own == ComGetOneVSInstanceInfo(direct.world, inst, direct.needChipInfo)
             IN inst.qi2 /\ "QueryInterface" \notin inst.fails /\ own.kind = "rec"
                => \E k \in DOMAIN direct.ret.value : direct.ret.value[k] = own.rec

\* how many times step occurs in steps
Times(steps, step) == Cardinality({k \in DOMAIN steps : steps[k] = step})

\* C18: once GetPackages has handed out the package array, SafeArrayDestroy
\* is called on it exactly once before the extraction of that instance ends
C18_ArrayDestroyedOnce ==
    \A i \in Fetched :
        /\ Performed(i, {"GetPackages"})
        /\ "GetPackages" \notin InstanceAt(i).fails
        /\ InstanceAt(i).packagesOK
        => Times(direct.log[i].steps, "SafeArrayDestroy") = 1

\* the run of the locator found under ProgramFiles(x86)
FirstRun == direct.world.vswhere[PF86 \o VSWhereSuffix]

\* C23: the locator strategy never raises; when the locator's output is
\* malformed it returns the empty list; and every record it returns has the
\* toolset version, both SDK flags and the architecture unset
C23_MalformedOutputIsEmpty ==
    direct.fn = "VSWhereGetAllVSInstanceInfo" =>
        /\ ~direct.ret.raised
        /\ FirstRun \in MalformedRuns /\ direct.world.files = {PF86 \o VSWhereSuffix}
           => direct.ret.value = <<>>
        /\ \A i \in DOMAIN direct.ret.value :
              /\ direct.ret.value[i].VCToolsetVersion = None
              /\ direct.ret.value[i].bWin10SDK = None
              /\ direct.ret.value[i].bWin81SDK = None
              /\ direct.ret.value[i].chip = None

\* C29: one run of the locator strategy invokes the locator executable at
\* most once and returns at most one record per entry of its output, also
\* when the executable exists under both directories
C29_LocatorInvokedOnce ==
    direct.fn = "VSWhereGetAllVSInstanceInfo" /\ ~direct.ret.raised =>
        /\ Len(direct.log) <= 1
        /\ Len(direct.ret.value) <= Len(FirstRun.items)

\* the text id holds the text part somewhere
Contains(id, part) ==
    \E a \in 1..(Len(id) + 1), b \in 0..Len(id) : SubSeq(id, a, b) = part

\* the packages of the instance that answer as package references and are
\* Components
Components(inst) ==
    {k \in DOMAIN inst.packages :
        inst.packages[k].qi /\ inst.packages[k].type = STRComponent}

----------------------------------------------------------------------------
(* Properties of the enumeration loop *)

\* C22: the enumerator is Ready while every fetch so far delivered an item
\* and Exhausted from the first fetch that answers a non-zero status or a
\* null item; an Exhausted enumerator never becomes Ready again and no Next
\* is issued on it; and a loop that was entered ends
C22_ReadyThenExhausted ==
    /\ [](enum.pc # "off" =>
            /\ enum.late = 0
            /\ enum.state = "Ready" => enum.calls = Len(enum.instances)
            /\ enum.state = "Exhausted" =>
                  enum.pc = "done" /\ enum.calls = Len(enum.instances) + 1)
    /\ [][enum.pc # "off" /\ enum.state = "Exhausted" =>
             enum'.state = "Exhausted" /\ enum'.calls = enum.calls]_vars
    /\ (enum.pc = "loop" ~> enum.pc = "done")

\* two items were fetched and the third fetch ended the sequence
C22_Witness ==
    /\ enum.pc = "done"
    /\ enum.state = "Exhausted"
    /\ enum.calls = 3
====
